---- MODULE Spec2Model ----
(***************************************************************************)
(* Trace-context propagation, span lifecycle and log correlation of the    *)
(* observability-go services (app-1, app-2, consumer-1, consumer-2).       *)
(*                                                                         *)
(* Strings that cross a boundary (header values, hex ids, baggage) are     *)
(* sequences of one-character strings, so that encoding and parsing are    *)
(* computed character by character.  Header names and log field names are  *)
(* atomic strings.                                                         *)
(***************************************************************************)
EXTENDS Integers, Sequences, FiniteSets, TLC

(***************************************************************************)
(* Bounds of the model.                                                    *)
(***************************************************************************)
\* hex digits of a TraceID on the wire (32 in W3C trace-context; scaled)
TraceIDHexLen == 3
\* hex digits of a SpanID on the wire (16 in W3C trace-context; scaled)
SpanIDHexLen == 2
\* longest baggage value, in characters
MaxValLen == 2
\* requests and messages that arrive from outside the four services
MaxStimuli == 1
\* the last SpanID the tracers draw; no unit of work starts beyond it
MaxSpanId == 7
\* Set calls, and Inject calls, made on one carrier
MaxSets == 2

\* how many times WithTrace is called in a row
MaxCalls == 2

(***************************************************************************)
(* Character sequences and hex.                                            *)
(***************************************************************************)
HexDigits == <<"0", "1", "2", "3", "4", "5", "6", "7", "8", "9", "a", "b", "c", "d", "e", "f">>

UpperHexDigits == {"A", "B", "C", "D", "E", "F"}

RECURSIVE Pow16(_)
Pow16(n) == IF n = 0 THEN 1 ELSE 16 * Pow16(n - 1)

IsLowerHex(c) == \E i \in 1..16 : HexDigits[i] = c

HexVal(c) == (CHOOSE i \in 1..16 : HexDigits[i] = c) - 1

\* n as w lowercase hex digits, most significant first (TraceID.String / SpanID.String)
RECURSIVE ToHex(_, _)
ToHex(n, w) == IF w = 0 THEN << >> ELSE Append(ToHex(n \div 16, w - 1), HexDigits[(n % 16) + 1])

\* value of a sequence of lowercase hex digits (hex.Decode)
RECURSIVE FromHex(_)
FromHex(s) == IF s = << >> THEN 0 ELSE 16 * FromHex(SubSeq(s, 1, Len(s) - 1)) + HexVal(s[Len(s)])

\* position of the first occurrence of character c in s, 0 when absent
IndexOf(s, c) == IF \E i \in 1..Len(s) : s[i] = c
                 THEN CHOOSE i \in 1..Len(s) : s[i] = c /\ \A j \in 1..(i - 1) : s[j] # c
                 ELSE 0

CutAt(s, i) == IF i = 0 THEN [part |-> s, left |-> << >>, found |-> FALSE]
               ELSE [part |-> SubSeq(s, 1, i - 1), left |-> SubSeq(s, i + 1, Len(s)), found |-> TRUE]

\* strings.Cut(s, c): the text before the first c, and the text after it
Cut(s, c) == CutAt(s, IndexOf(s, c))

RECURSIVE Join(_, _)
Join(parts, sep) == IF parts = << >> THEN << >>
                    ELSE IF Len(parts) = 1 THEN parts[1]
                    ELSE parts[1] \o sep \o Join(Tail(parts), sep)

RECURSIVE Split(_, _)
SplitAt(r, c) == IF r.found THEN <<r.part>> \o Split(r.left, c) ELSE <<r.part>>

\* strings.Split(s, c)
Split(s, c) == SplitAt(Cut(s, c), c)

\* all orderings of a finite set, as sequences without repetition
Perms(S) == {p \in [1..Cardinality(S) -> S] : \A i, j \in 1..Cardinality(S) : p[i] = p[j] => i = j}

(***************************************************************************)
(* Trace contexts.  A span context is (TraceID, SpanID, TraceFlags,        *)
(* Remote); the all-zero TraceID and SpanID are the invalid ones.  A       *)
(* context carries the current span context and the baggage.               *)
(***************************************************************************)
NoSC == [tid |-> 0, sid |-> 0, flags |-> 0, remote |-> FALSE]

\* trace.SpanContext.IsValid: HasTraceID && HasSpanID
IsValid(sc) == sc.tid # 0 /\ sc.sid # 0

EmptyBag == << >>

\* context.Background()
Background == [sc |-> NoSC, bag |-> EmptyBag]

(***************************************************************************)
(* Carriers.  A header table maps a header name to a value that is a       *)
(* string or something else (amqp091.Table is map[string]interface{}).     *)
(* nil is Go's nil map: reads find nothing, a write panics.                *)
(***************************************************************************)
StrVal(s) == [isStr |-> TRUE, s |-> s]

\* a header value that is not a Go string (for instance a []byte with these bytes)
RawVal(s) == [isStr |-> FALSE, s |-> s]

NoHeaders == << >>

\* make(amqp091.Table) / make(map[string]string)
NewCarrier == [nil |-> FALSE, h |-> NoHeaders, panicked |-> FALSE]

\* a carrier over a nil header table
NilCarrier == [nil |-> TRUE, h |-> NoHeaders, panicked |-> FALSE]

Put(h, k, v) == [x \in (DOMAIN h) \cup {k} |-> IF x = k THEN v ELSE h[x]]

\* a Get that returns the bytes of a value that is not a string
GetAnyType(c, key) == IF key \in DOMAIN c.h THEN c.h[key].s ELSE << >>

\* RabbitMQCarrier.Get
Get(c, key) == IF key \in DOMAIN c.h
               THEN IF c.h[key].isStr THEN c.h[key].s ELSE << >>
               ELSE << >>

\* RabbitMQCarrier.Set: c.headers[key] = value
Set(c, key, value) == IF c.nil THEN [c EXCEPT !.panicked = TRUE]
                      ELSE [c EXCEPT !.h = Put(c.h, key, StrVal(value))]

RECURSIVE KeysLoop(_, _)
KeysLoop(keys, rest) == IF rest = << >> THEN keys ELSE KeysLoop(Append(keys, Head(rest)), Tail(rest))

\* a Keys that lists the headers whose value is a string
KeysOfStrings(c, ord) == SelectSeq(ord, LAMBDA k : c.h[k].isStr)

\* RabbitMQCarrier.Keys: keys = append(keys, k) for k := range c.headers; ord is
\* the order in which range visits the table
Keys(c, ord) == KeysLoop(<< >>, ord)

\* propagation.MapCarrier.Get: the map's value, "" when absent
MapGet(c, key) == IF key \in DOMAIN c.h THEN c.h[key].s ELSE << >>

\* propagation.MapCarrier.Set
MapSet(c, key, value) == IF c.nil THEN [c EXCEPT !.panicked = TRUE]
                         ELSE [c EXCEPT !.h = Put(c.h, key, StrVal(value))]

\* kind tells the carrier type: "map" is propagation.MapCarrier, "rabbit" is RabbitMQCarrier
CarrierGet(kind, c, key) == IF kind = "map" THEN MapGet(c, key) ELSE Get(c, key)

CarrierSet(kind, c, key, value) == IF kind = "map" THEN MapSet(c, key, value) ELSE Set(c, key, value)

(***************************************************************************)
(* propagation.TraceContext: the traceparent header                        *)
(*   version "-" trace-id "-" parent-id "-" trace-flags                    *)
(***************************************************************************)
Dash == <<"-">>

PartOk(part, n) == Len(part) = n /\ \A i \in 1..Len(part) : IsLowerHex(part[i])

PartOf(r, n) == [ok |-> PartOk(r.part, n), val |-> IF PartOk(r.part, n) THEN FromHex(r.part) ELSE 0,
                 left |-> r.left]

\* one "-"-separated field of exactly n lowercase hex digits
extractPart(h, n) == PartOf(Cut(h, "-"), n)

\* the traceparent value written for a valid span context
Traceparent(sc) == <<"0", "0">> \o Dash \o ToHex(sc.tid, TraceIDHexLen) \o Dash
                   \o ToHex(sc.sid, SpanIDHexLen) \o Dash \o ToHex(sc.flags % 2, 2)

RemoteSC(tid, sid, flags) == IF tid # 0 /\ sid # 0
                             THEN [tid |-> tid, sid |-> sid, flags |-> flags % 2, remote |-> TRUE]
                             ELSE NoSC

ParseFlags(version, tid, sid, o) ==
    IF ~o.ok THEN NoSC
    ELSE IF version = 0 /\ (o.left # << >> \/ o.val > 2) THEN NoSC
    ELSE RemoteSC(tid, sid, o.val)

ParseSid(version, tid, s) ==
    IF ~s.ok THEN NoSC ELSE ParseFlags(version, tid, s.val, extractPart(s.left, 2))

ParseTid(version, t) ==
    IF ~t.ok THEN NoSC ELSE ParseSid(version, t.val, extractPart(t.left, SpanIDHexLen))

ParseVersion(ver) ==
    IF ~ver.ok \/ ver.val > 254 THEN NoSC
    ELSE ParseTid(ver.val, extractPart(ver.left, TraceIDHexLen))

\* the span context read from a traceparent value, NoSC when it is malformed
ParseTraceparent(h) == IF h = << >> THEN NoSC ELSE ParseVersion(extractPart(h, 2))

(***************************************************************************)
(* propagation.Baggage: the baggage header, key "=" value members joined   *)
(* by ",", values percent-encoded.                                         *)
(***************************************************************************)
ValChars == {"a", ",", "%"}

BagKeys == {<<"k">>, <<"m">>}

IsKeyChar(c) == c \in {"a", "k", "m"}

BagVals == UNION {[1..n -> ValChars] : n \in 1..MaxValLen}

\* every baggage over BagKeys
Baggages == UNION {[K -> BagVals] : K \in SUBSET BagKeys}

\* an encoder that leaves every character as it is
EscapeCharNone(c) == <<c>>

EscapeChar(c) == IF c = "," THEN <<"%", "2", "C">>
                 ELSE IF c = "%" THEN <<"%", "2", "5">>
                 ELSE <<c>>

RECURSIVE valueEscape(_)
valueEscape(v) == IF v = << >> THEN << >> ELSE EscapeChar(Head(v)) \o valueEscape(Tail(v))

IsHex(c) == IsLowerHex(c) \/ c \in UpperHexDigits

\* the character a percent-escape stands for ("?" : one outside the model's alphabet)
Unhex(a, b) == IF a = "2" /\ b \in {"C", "c"} THEN ","
               ELSE IF a = "2" /\ b = "5" THEN "%"
               ELSE IF a = "6" /\ b = "1" THEN "a"
               ELSE "?"

Prefixed(c, r) == [ok |-> r.ok, v |-> <<c>> \o r.v]

\* percent-decoding of a member's value; an incomplete escape is an error
RECURSIVE Unescape(_)
Unescape(s) ==
    IF s = << >> THEN [ok |-> TRUE, v |-> << >>]
    ELSE IF Head(s) = "%"
         THEN IF Len(s) >= 3 /\ IsHex(s[2]) /\ IsHex(s[3])
              THEN Prefixed(Unhex(s[2], s[3]), Unescape(SubSeq(s, 4, Len(s))))
              ELSE [ok |-> FALSE, v |-> << >>]
         ELSE Prefixed(Head(s), Unescape(Tail(s)))

\* Member.String
MemberString(k, v) == k \o <<"=">> \o valueEscape(v)

\* Baggage.String with the members in the order ord (Go iterates a map: any order)
BaggageString(bag, ord) == Join([i \in 1..Len(ord) |-> MemberString(ord[i], bag[ord[i]])], <<",">>)

MemberKV(r, u) == [ok |-> r.found /\ r.part # << >> /\ (\A i \in 1..Len(r.part) : IsKeyChar(r.part[i])) /\ u.ok,
                   k |-> r.part, v |-> u.v]

MemberOf(r) == MemberKV(r, Unescape(r.left))

\* one parsed list-member
ParseMember(m) == MemberOf(Cut(m, "="))

PutMember(bag, kv) == Put(bag, kv.k, kv.v)

RECURSIVE BagOf(_)
BagOf(ms) == IF ms = << >> THEN EmptyBag
             ELSE PutMember(BagOf(SubSeq(ms, 1, Len(ms) - 1)), ParseMember(ms[Len(ms)]))

ParseMembers(ms) == IF \A i \in 1..Len(ms) : ParseMember(ms[i]).ok
                    THEN [ok |-> TRUE, bag |-> BagOf(ms)]
                    ELSE [ok |-> FALSE, bag |-> EmptyBag]

\* baggage.Parse: the baggage, or an error
BaggageParse(s) == ParseMembers(Split(s, ","))

(***************************************************************************)
(* The composite propagator installed by initTracer:                       *)
(* TraceContext{} then Baggage{}.                                          *)
(***************************************************************************)
TraceparentHeader == "traceparent"

BaggageHeader == "baggage"

\* propagation.TraceContext.Inject: nothing is written for an invalid span context
TraceContextInject(kind, ctx, c) ==
    IF IsValid(ctx.sc) THEN CarrierSet(kind, c, TraceparentHeader, Traceparent(ctx.sc)) ELSE c

\* propagation.Baggage.Inject: nothing is written for an empty baggage
BaggageInject(kind, ctx, c, ord) ==
    IF DOMAIN ctx.bag # {} THEN CarrierSet(kind, c, BaggageHeader, BaggageString(ctx.bag, ord)) ELSE c

\* an Inject that appends the traceparent to the value the header already has
InjectAppending(kind, ctx, c, ord) ==
    BaggageInject(kind, ctx,
                  IF IsValid(ctx.sc)
                  THEN CarrierSet(kind, c, TraceparentHeader,
                                  CarrierGet(kind, c, TraceparentHeader) \o Traceparent(ctx.sc))
                  ELSE c,
                  ord)

\* otel.GetTextMapPropagator().Inject(ctx, carrier); ord is the order in which
\* the baggage members are written
Inject(kind, ctx, c, ord) == BaggageInject(kind, ctx, TraceContextInject(kind, ctx, c), ord)

\* propagation.TraceContext.Extract
TraceContextExtract(ctx, sc) == IF IsValid(sc) THEN [ctx EXCEPT !.sc = sc] ELSE ctx

WithParsedBaggage(ctx, p) == IF p.ok THEN [ctx EXCEPT !.bag = p.bag] ELSE ctx

\* propagation.Baggage.Extract
BaggageExtract(ctx, b) == IF b = << >> THEN ctx ELSE WithParsedBaggage(ctx, BaggageParse(b))

\* otel.GetTextMapPropagator().Extract(ctx, carrier)
Extract(kind, ctx, c) ==
    BaggageExtract(TraceContextExtract(ctx, ParseTraceparent(CarrierGet(kind, c, TraceparentHeader))),
                   CarrierGet(kind, c, BaggageHeader))

\* shared.InjectTraceContext
InjectTraceContext(ctx, ord) == Inject("map", ctx, NewCarrier, ord)

\* shared.ExtractTraceContext
ExtractTraceContext(ctx, traceMap) == Extract("map", ctx, traceMap)

(***************************************************************************)
(* encoding/json, as far as shared uses it.  A JSON text is a sequence of  *)
(* characters; the name of a header is one element of it.                  *)
(***************************************************************************)
Quote == "\""

Backslash == "\\"

DecDigits == <<"0", "1", "2", "3", "4", "5", "6", "7", "8", "9">>

IsDecDigit(c) == \E i \in 1..10 : DecDigits[i] = c

\* n in decimal (strconv.Itoa)
RECURSIVE Itoa(_)
Itoa(n) == IF n < 10 THEN <<DecDigits[n + 1]>> ELSE Append(Itoa(n \div 10), DecDigits[(n % 10) + 1])

\* the byte of a character
ByteOf(c) == IF IsDecDigit(c) THEN 48 + HexVal(c)
             ELSE IF IsLowerHex(c) THEN 87 + HexVal(c)
             ELSE IF c = "-" THEN 45
             ELSE IF c = "," THEN 44
             ELSE IF c = "%" THEN 37
             ELSE 63

\* the keys json.Marshal writes, in the order it writes them: sorted by byte
SortedKeys == <<"Content-Type", "X-Request-ID", "baggage", "n", "traceparent", "x-other">>

InTable(h, k) == k \in DOMAIN h

KeysOf(h) == SelectSeq(SortedKeys, LAMBDA k : InTable(h, k))

\* a character inside a JSON string: the quote and the backslash are escaped
JsonEscapeChar(c) == IF c = Quote \/ c = Backslash THEN <<Backslash, c>> ELSE <<c>>

\* a writer of JSON strings that escapes nothing
JsonEscapeCharNone(c) == <<c>>

RECURSIVE JsonEscape(_)
JsonEscape(s) == IF s = << >> THEN << >> ELSE JsonEscapeChar(Head(s)) \o JsonEscape(Tail(s))

JsonString(s) == <<Quote>> \o JsonEscape(s) \o <<Quote>>

MarshalMember(h, k) == JsonString(<<k>>) \o <<":">> \o JsonString(h[k].s)

MarshalMembers(h, ks) == Join([i \in 1..Len(ks) |-> MarshalMember(h, ks[i])], <<",">>)

\* json.Marshal of a map[string]string that is not nil
Marshal(carrier) == <<"{">> \o MarshalMembers(carrier.h, KeysOf(carrier.h)) \o <<"}">>

NoRead == [ok |-> FALSE, kind |-> "", v |-> << >>, rest |-> << >>]

Prepend(c, r) == [r EXCEPT !.v = <<c>> \o @]

\* the string whose opening quote has just been read
RECURSIVE ReadString(_)
ReadString(s) ==
    IF s = << >> THEN NoRead
    ELSE IF Head(s) = Quote THEN [ok |-> TRUE, kind |-> "string", v |-> << >>, rest |-> Tail(s)]
    ELSE IF Head(s) = Backslash
         THEN IF Len(s) >= 2 /\ s[2] \in {Quote, Backslash}
              THEN Prepend(s[2], ReadString(SubSeq(s, 3, Len(s))))
              ELSE NoRead
    ELSE Prepend(Head(s), ReadString(Tail(s)))

\* the number of decimal digits s starts with
LeadingDigits(s) == CHOOSE n \in 0..Len(s) : /\ \A i \in 1..n : IsDecDigit(s[i])
                                             /\ (n = Len(s) \/ ~IsDecDigit(s[n + 1]))

StartsWith(s, p) == Len(s) >= Len(p) /\ SubSeq(s, 1, Len(p)) = p

ReadLiteral(s, p, kind) == [ok |-> TRUE, kind |-> kind, v |-> p, rest |-> SubSeq(s, Len(p) + 1, Len(s))]

\* a value that is not an object: a string, a number, null, an empty array
ReadValue(s) ==
    IF s = << >> THEN NoRead
    ELSE IF Head(s) = Quote THEN ReadString(Tail(s))
    ELSE IF IsDecDigit(Head(s)) THEN ReadLiteral(s, SubSeq(s, 1, LeadingDigits(s)), "number")
    ELSE IF StartsWith(s, <<"n", "u", "l", "l">>) THEN ReadLiteral(s, <<"n", "u", "l", "l">>, "null")
    ELSE IF StartsWith(s, <<"[", "]">>) THEN ReadLiteral(s, <<"[", "]">>, "array")
    ELSE NoRead

NoMembers == [ok |-> FALSE, ms |-> << >>]

KeyOf(v) == IF Len(v) = 1 THEN v[1] ELSE "?"

Member(key, val) == [k |-> KeyOf(key.v), kind |-> val.kind, v |-> val.v]

RECURSIVE ReadMembers(_)
MoreMembers(m, more) == [ok |-> more.ok, ms |-> <<m>> \o more.ms]

AfterValue(key, val) ==
    IF ~val.ok \/ val.rest = << >> THEN NoMembers
    ELSE IF val.rest = <<"}">> THEN [ok |-> TRUE, ms |-> <<Member(key, val)>>]
    ELSE IF Head(val.rest) = "," THEN MoreMembers(Member(key, val), ReadMembers(Tail(val.rest)))
    ELSE NoMembers

AfterKey(key) ==
    IF ~key.ok \/ key.rest = << >> \/ Head(key.rest) # ":" THEN NoMembers
    ELSE AfterValue(key, ReadValue(Tail(key.rest)))

\* the members of an object, from the first character of a key to the closing brace
\* that ends the text
ReadMembers(s) == IF s = << >> \/ Head(s) # Quote THEN NoMembers ELSE AfterKey(ReadString(Tail(s)))

Syntax == [valid |-> FALSE, kind |-> "", ms |-> << >>]

ObjectOf(r) == IF r.ok THEN [valid |-> TRUE, kind |-> "object", ms |-> r.ms] ELSE Syntax

ValueOf(r) == IF r.ok /\ r.rest = << >> THEN [valid |-> TRUE, kind |-> r.kind, ms |-> << >>] ELSE Syntax

\* the scan of a whole JSON text (checkValid), with the members of an object
Scan(text) ==
    IF text = << >> THEN Syntax
    ELSE IF Head(text) = "{"
         THEN IF Tail(text) = <<"}">> THEN [valid |-> TRUE, kind |-> "object", ms |-> << >>]
              ELSE ObjectOf(ReadMembers(Tail(text)))
    ELSE ValueOf(ReadValue(text))

\* a member stored into a map[string]string: a value that is not a string leaves
\* the zero value under its key and the type error is remembered
RECURSIVE StoreStrings(_, _)
StoreStrings(h, ms) ==
    IF ms = << >> THEN h
    ELSE StoreStrings(Put(h, ms[1].k, StrVal(IF ms[1].kind = "string" THEN ms[1].v ELSE << >>)), Tail(ms))

AllStrings(ms) == \A i \in 1..Len(ms) : ms[i].kind = "string"

UnmarshalScanned(r, m) ==
    IF ~r.valid THEN [err |-> "syntax", m |-> m]
    ELSE IF r.kind = "object"
         THEN [err |-> IF AllStrings(r.ms) THEN "" ELSE "type", m |-> [m EXCEPT !.h = StoreStrings(m.h, r.ms)]]
    ELSE [err |-> IF r.kind = "null" THEN "" ELSE "type", m |-> m]

\* json.Unmarshal(text, &m) for m of type map[string]string, not nil
Unmarshal(text, m) == UnmarshalScanned(Scan(text), m)

\* a value of type any that a JSON number or null decodes to
AnyVal(kind, s) == [isStr |-> FALSE, s |-> s, ty |-> kind]

AnyOf(m) == IF m.kind = "string" THEN StrVal(m.v) ELSE AnyVal(m.kind, m.v)

RECURSIVE StoreAny(_, _)
StoreAny(h, ms) == IF ms = << >> THEN h ELSE StoreAny(Put(h, ms[1].k, AnyOf(ms[1])), Tail(ms))

\* a value of type any as ConvertToMap distinguishes it: a map[string]any, a
\* string, anything else
AnyMap(h) == [type |-> "map", m |-> h, s |-> << >>]

AnyString(s) == [type |-> "string", m |-> NoHeaders, s |-> s]

AnyOther == [type |-> "other", m |-> NoHeaders, s |-> << >>]

UnmarshalAnyScanned(r) == IF r.valid /\ r.kind = "object" THEN AnyMap(StoreAny(NoHeaders, r.ms)) ELSE AnyOther

\* json.Unmarshal(text, &m) for m of type map[string]any
UnmarshalAny(text) == UnmarshalAnyScanned(Scan(text))

\* fmt.Sprintf("%v", v): a string is itself, a number its digits, nil is <nil>,
\* a []byte the list of its bytes in decimal
Sprintv(v) ==
    IF v.isStr THEN v.s
    ELSE IF "ty" \in DOMAIN v THEN (IF v.ty = "number" THEN v.s ELSE <<"<", "n", "i", "l", ">">>)
    ELSE <<"[">> \o Join([i \in 1..Len(v.s) |-> Itoa(ByteOf(v.s[i]))], <<" ">>) \o <<"]">>

\* shared.InjectTraceContextJSON
InjectTraceContextJSON(ctx, ord) == Marshal(InjectTraceContext(ctx, ord))

\* a ConvertToMap without the string case
ConvertToMapNoString(raw) ==
    IF raw.type = "map" THEN [NewCarrier EXCEPT !.h = [k \in DOMAIN raw.m |-> StrVal(Sprintv(raw.m[k]))]]
    ELSE NewCarrier

\* shared.ConvertToMap
ConvertToMap(raw) ==
    IF raw.type = "map" THEN [NewCarrier EXCEPT !.h = [k \in DOMAIN raw.m |-> StrVal(Sprintv(raw.m[k]))]]
    ELSE IF raw.type = "string" THEN Unmarshal(raw.s, NewCarrier).m
    ELSE NewCarrier

(***************************************************************************)
(* logger.WithTrace.  A logger is the list of fields it adds to every      *)
(* entry; the base logger built by logger.New has none.                    *)
(***************************************************************************)
BaseLogger == << >>

Field(k, v) == [k |-> k, v |-> v]

\* a WithTrace that does not look at the validity of the span context
WithTraceNoGuard(logger, ctx, spanId) ==
    logger \o <<Field("trace_id", ToHex(ctx.sc.tid, TraceIDHexLen))>>
           \o (IF spanId # << >> THEN <<Field("span_id", spanId)>> ELSE << >>)

\* a WithTrace that adds span_id whatever spanId is
WithTraceAlwaysSpanId(logger, ctx, spanId) ==
    IF ~IsValid(ctx.sc) THEN logger
    ELSE logger \o <<Field("trace_id", ToHex(ctx.sc.tid, TraceIDHexLen)), Field("span_id", spanId)>>

\* logger.WithTrace(ctx, spanId), logger being the package's base logger
WithTrace(logger, ctx, spanId) ==
    IF ~IsValid(ctx.sc) THEN logger
    ELSE logger \o <<Field("trace_id", ToHex(ctx.sc.tid, TraceIDHexLen))>>
                \o (IF spanId # << >> THEN <<Field("span_id", spanId)>> ELSE << >>)

\* a WithTrace that keeps the logger it derived in the package variable
PackageLoggerReassigned(logger, ctx, spanId) == WithTrace(logger, ctx, spanId)

\* the package variable logger after WithTrace(ctx, spanId): only New assigns it, and
\* zap's With builds the derived logger on a clone
PackageLogger(logger, ctx, spanId) == logger

\* the earlier logger.WithTrace(ctx), which takes both ids from the context's span
WithTraceCtx(logger, ctx) ==
    IF IsValid(ctx.sc)
    THEN logger \o <<Field("trace_id", ToHex(ctx.sc.tid, TraceIDHexLen)),
                     Field("span_id", ToHex(ctx.sc.sid, SpanIDHexLen))>>
    ELSE logger

(***************************************************************************)
(* Spans.  The SDK tracer (ParentBased(AlwaysSample), the default of       *)
(* trace.NewTracerProvider) gives a span the TraceID of the span context   *)
(* found in ctx, or a new TraceID when there is none, and always a new     *)
(* SpanID.  nt and ns are the unused TraceID and SpanID it draws.          *)
(***************************************************************************)
NewSpan(sc, parent, name, rec) ==
    [sc |-> sc, parent |-> parent, name |-> name, rec |-> rec,
     ended |-> 0, status |-> "Unset", errs |-> 0]

\* a Start whose new context has lost the baggage
StartedNoBaggage(ctx, sc, parent, name, root) ==
    [ctx |-> [sc |-> sc, bag |-> EmptyBag], span |-> NewSpan(sc, parent, name, sc.flags = 1), root |-> root]

Started(ctx, sc, parent, name, root) ==
    [ctx |-> [ctx EXCEPT !.sc = sc], span |-> NewSpan(sc, parent, name, sc.flags = 1), root |-> root]

\* a Start that gives a child the SpanID of its parent
StartSpanSameId(ctx, name, nt, ns) ==
    IF IsValid(ctx.sc)
    THEN Started(ctx, [tid |-> ctx.sc.tid, sid |-> ctx.sc.sid, flags |-> ctx.sc.flags % 2, remote |-> FALSE],
                 ctx.sc.sid, name, FALSE)
    ELSE Started(ctx, [tid |-> nt, sid |-> ns, flags |-> 1, remote |-> FALSE], 0, name, TRUE)

\* tracer.Start(ctx, name)
StartSpan(ctx, name, nt, ns) ==
    IF IsValid(ctx.sc)
    THEN Started(ctx, [tid |-> ctx.sc.tid, sid |-> ns, flags |-> ctx.sc.flags % 2, remote |-> FALSE],
                 ctx.sc.sid, name, FALSE)
    ELSE Started(ctx, [tid |-> nt, sid |-> ns, flags |-> 1, remote |-> FALSE], 0, name, TRUE)

\* tracer.Start(ctx, name) while no tracer provider is registered (otel's global
\* default): a span that records nothing and has the span context found in ctx
NoopStart(ctx, name) ==
    [ctx |-> ctx, span |-> NewSpan(ctx.sc, 0, name, FALSE), root |-> ~IsValid(ctx.sc)]

\* otel.Tracer(...).Start(ctx, name); tp tells what otel.GetTracerProvider() is:
\* "sdk" after initTracer, "noop" when no provider was registered
TracerStart(tp, ctx, name, nt, ns) ==
    IF tp = "sdk" THEN StartSpan(ctx, name, nt, ns) ELSE NoopStart(ctx, name)

\* span.SpanContext().SpanID().String()
SpanIDString(sc) == ToHex(sc.sid, SpanIDHexLen)

TraceResult(r) == [ctx |-> r.ctx, span |-> r.span, spanId |-> SpanIDString(r.span.sc)]

\* shared.Trace: ctx, span := tracer.Start(ctx, spanName); return ctx, span, span id string
Trace(tp, ctx, spanName, nt, ns) == TraceResult(TracerStart(tp, ctx, spanName, nt, ns))

(***************************************************************************)
(* State.                                                                  *)
(*   unit[t]    the unit of work task t is processing or processed last:   *)
(*              the inbound request or delivery, the contexts, the spans   *)
(*              started for it, the log entries and the order of events    *)
(*   pc[t]      where task t is in its handler or loop body                *)
(*   tq, tq2    the queues task_queue and task_queue_2                     *)
(*   mainpc[t]  main of process t: starting, running, channel closed,      *)
(*              returned, or ended at startup with exit status 0 or 1      *)
(*   call       the HTTP call of app-1's /call-app2 to app-2               *)
(*   nextTrace, nextSpan   the ids the tracers have not drawn so far       *)
(*   used       the requests and messages that arrived from outside        *)
(*   variant    which consumer-1 is built: "simple" (consumer-1/main.go)   *)
(*              or "process" (the one with processMessage)                 *)
(*   globals[t] what initTracer left in the otel globals of process t: the *)
(*              tracer provider, the propagator, whether spans are exported*)
(*   fn         argument and result of the propagation and logging         *)
(*              functions when they are applied on their own               *)
(***************************************************************************)
VARIABLES unit, pc, tq, tq2, mainpc, call, nextTrace, nextSpan, used, variant, fn, globals

vars == <<unit, pc, tq, tq2, mainpc, call, nextTrace, nextSpan, used, variant, fn, globals>>

Apps == {"app1", "app2"}

Consumers == {"c1", "c2"}

Tasks == Apps \cup Consumers

\* ids that only a party outside the four services uses
ExtTid == Pow16(TraceIDHexLen) - 1

ExtSid == Pow16(SpanIDHexLen) - 1

IdleUnit ==
    [kind |-> "none", route |-> "", hdr |-> NilCarrier, body |-> << >>, ctype |-> "",
     redelivered |-> FALSE, caller |-> "",
     extracted |-> FALSE, ctx0 |-> Background, ctx |-> Background, spanId |-> << >>,
     lg |-> BaseLogger, sp |-> << >>, ev |-> << >>, logs |-> << >>,
     acks |-> 0, nacks |-> 0, resp |-> 0, err |-> FALSE, pub |-> << >>]

AddEv(u, e, i) == [u EXCEPT !.ev = Append(@, [e |-> e, s |-> i])]

\* one entry written through logger lg
AddLog(u, lg, m) == [u EXCEPT !.logs = Append(@, [lg |-> lg, m |-> m]),
                              !.ev = Append(@, [e |-> "log", s |-> Len(u.logs) + 1])]

AddSpan(u, span) == [u EXCEPT !.sp = Append(@, span),
                              !.ev = Append(@, [e |-> "start", s |-> Len(u.sp) + 1])]

\* span.End() on the unit's i-th span
EndSpan(u, i) == [u EXCEPT !.sp[i].ended = @ + 1,
                           !.ev = Append(@, [e |-> "end", s |-> i])]

\* span.RecordError(err): kept only by a recording span that has not ended
RecordError(u, i) ==
    [u EXCEPT !.sp[i].errs = IF u.sp[i].rec /\ u.sp[i].ended = 0 THEN @ + 1 ELSE @,
              !.ev = Append(@, [e |-> "set", s |-> i])]

\* span.SetStatus(codes.Error, ...)
SetStatus(u, i) ==
    [u EXCEPT !.sp[i].status = IF u.sp[i].rec /\ u.sp[i].ended = 0 THEN "Error" ELSE @,
              !.ev = Append(@, [e |-> "set", s |-> i])]

\* span.SetAttributes(...)
SetAttributes(u, i) == AddEv(u, "set", i)

\* the handler returns and the framework writes the response
Respond(u, status) == AddEv([u EXCEPT !.resp = status], "respond", 0)

Message(hdr, body) == [hdr |-> hdr, body |-> body, ctype |-> "text/plain", redelivered |-> FALSE]

(***************************************************************************)
(* What arrives from outside: messages other producers publish to          *)
(* task_queue, and HTTP requests of clients.                               *)
(***************************************************************************)
ExtSC(flags) == [tid |-> ExtTid, sid |-> ExtSid, flags |-> flags, remote |-> FALSE]

ExtTraceparent == Traceparent(ExtSC(1))

Garbage == <<"g", "a", "r", "b", "a", "g", "e">>

\* traceparent values no span context can be read from
MalformedTraceparents ==
    { SubSeq(ExtTraceparent, 1, Len(ExtTraceparent) - 1),
      <<"f", "f">> \o SubSeq(ExtTraceparent, 3, Len(ExtTraceparent)),
      Traceparent([tid |-> 0, sid |-> ExtSid, flags |-> 1]),
      Traceparent([tid |-> ExtTid, sid |-> 0, flags |-> 1]),
      <<"0", "0">> \o Dash \o [i \in 1..TraceIDHexLen |-> "F"] \o Dash \o ToHex(ExtSid, SpanIDHexLen) \o Dash \o <<"0", "1">>,
      <<"0", "0">> \o Dash \o [i \in 1..TraceIDHexLen |-> "z"] \o Dash \o ToHex(ExtSid, SpanIDHexLen) \o Dash \o <<"0", "1">>,
      <<"0", "0">> \o Dash \o ToHex(ExtTid, TraceIDHexLen) \o Dash \o ToHex(ExtSid, SpanIDHexLen) \o Dash \o <<"0", "3">>,
      ExtTraceparent \o Dash \o <<"0", "0">>,
      Garbage }

\* baggage values baggage.Parse rejects
MalformedBaggages == { <<"k">>, <<"=", "a">>, <<"k", "=", "%", "z", "z">>, <<"k", "=", "a", ",">> }

OneBag == [x \in {<<"k">>} |-> <<"a", ",">>]

WithHeader(c, key, val) == [c EXCEPT !.h = Put(c.h, key, val)]

\* the header tables of the messages other producers publish: none, a sampled
\* trace, an unsampled trace with baggage, a traceparent that is not a string, a
\* malformed traceparent beside baggage, headers that do not propagate anything
InboundHeaders ==
    { NilCarrier,
      Inject("rabbit", [sc |-> ExtSC(1), bag |-> EmptyBag], NewCarrier, << >>),
      Inject("rabbit", [sc |-> ExtSC(0), bag |-> OneBag], NewCarrier, <<<<"k">>>>),
      WithHeader(NewCarrier, TraceparentHeader, RawVal(ExtTraceparent)),
      WithHeader(WithHeader(NewCarrier, TraceparentHeader, StrVal(Garbage)),
                 BaggageHeader, StrVal(<<"k", "=", "a">>)),
      WithHeader(NewCarrier, "x-other", StrVal(<<"a">>)) }

\* the messages other producers publish: every header table with a body, two
\* of them with an empty body, and one of another content type
InboundMessages ==
    {Message(h, <<"a">>) : h \in InboundHeaders}
    \cup {Message(h, << >>) : h \in {NilCarrier, Inject("rabbit", [sc |-> ExtSC(1), bag |-> EmptyBag], NewCarrier, << >>)}}
    \cup {[Message(WithHeader(NewCarrier, "x-other", StrVal(<<"a">>)), <<"{", "}">>)
              EXCEPT !.ctype = "application/json"]}

\* the headers of the HTTP requests clients send: none that propagate, or a traceparent
RequestHeaders ==
    { NewCarrier,
      Inject("map", [sc |-> ExtSC(1), bag |-> EmptyBag], NewCarrier, << >>) }

(***************************************************************************)
(* initTracer: what it leaves in the otel globals.  Before it runs they    *)
(* hold a tracer provider and a propagator that do nothing.                *)
(***************************************************************************)
\* an initTracer that gives up when the exporter cannot be created
initTracerNoFallback(exp) ==
    IF exp THEN [tp |-> "sdk", prop |-> "composite", exporter |-> TRUE]
    ELSE [tp |-> "noop", prop |-> "none", exporter |-> FALSE]

\* exp: otlptrace.New returned an exporter.  Without one the provider is
\* trace.NewTracerProvider() with no span processor; the propagator is set either way
initTracer(exp) ==
    IF exp THEN [tp |-> "sdk", prop |-> "composite", exporter |-> TRUE]
    ELSE [tp |-> "sdk", prop |-> "composite", exporter |-> FALSE]

(***************************************************************************)
(* The consume loops of consumer-1 and consumer-2.                         *)
(***************************************************************************)
\* a loop that never extracts
DeliveryContextNone(prop, d) == Background

\* ctx := context.Background(); if len(d.Headers) > 0 { ctx = Extract(ctx, carrier) }
DeliveryContext(prop, d) ==
    IF Cardinality(DOMAIN d.hdr.h) > 0 /\ prop = "composite"
    THEN Extract("rabbit", Background, d.hdr) ELSE Background

\* the unit of work of a delivery taken from msgs
Received(d) ==
    [IdleUnit EXCEPT !.kind = "msg", !.hdr = d.hdr, !.body = d.body, !.ctype = d.ctype,
                     !.redelivered = d.redelivered,
                     !.extracted = Cardinality(DOMAIN d.hdr.h) > 0,
                     !.ev = IF Cardinality(DOMAIN d.hdr.h) > 0
                            THEN <<[e |-> "recv", s |-> 0], [e |-> "extract", s |-> 0]>>
                            ELSE <<[e |-> "recv", s |-> 0]>>]

\* currentSpanId := ""; if span != nil && span.SpanContext().IsValid() { ... }
currentSpanId(span) == IF IsValid(span.sc) THEN SpanIDString(span.sc) ELSE << >>

\* traceLogger := logger.WithTrace(ctx, currentSpanId); traceLogger.Info(m)
WithTraceLogger(u, lg, m) == AddLog([u EXCEPT !.lg = lg], lg, m)

Outermost(u, ctx0, r, m) ==
    WithTraceLogger(AddSpan([u EXCEPT !.ctx0 = ctx0, !.ctx = r.ctx, !.spanId = currentSpanId(r.span)], r.span),
                    WithTrace(BaseLogger, r.ctx, currentSpanId(r.span)), m)

BeginLoopBody(tp, u, ctx0, name, nt, ns) ==
    Outermost(u, ctx0, TracerStart(tp, ctx0, name, nt, ns), "Received a message")

\* the head of the loop body: Extract when the delivery has headers, Start of the
\* outermost span, the span id string, the trace logger and its first entry
BeginDelivery(g, d, name, nt, ns) ==
    BeginLoopBody(g.tp, Received(d), DeliveryContext(g.prop, d), name, nt, ns)

Failed(u) == [u EXCEPT !.err = TRUE]

Validated(u) == AddLog(AddLog(u, u.lg, "Parsing message"), u.lg, "Validating message")

\* a processMessage that does not look at the length of the body
ProcessStepsNoValidation(u, i, rnd) ==
    IF rnd THEN Failed(AddLog(RecordError(u, i), u.lg, "Random processing error"))
    ELSE AddLog(AddLog(u, u.lg, "Processing message"), u.lg, "Message processed successfully")

ProcessSteps(u, i, rnd) ==
    IF u.body = << >> THEN Failed(u)
    ELSE IF rnd THEN Failed(AddLog(RecordError(u, i), u.lg, "Random processing error"))
    ELSE AddLog(AddLog(u, u.lg, "Processing message"), u.lg, "Message processed successfully")

\* processMessage(ctx, log, body) of consumer-1; rnd is rand.Intn(3) == 0
processMessage(tp, u, rnd, nt, ns) ==
    EndSpan(ProcessSteps(Validated(AddSpan(u, TracerStart(tp, u.ctx, "ProcessMessage", nt, ns).span)),
                         Len(u.sp) + 1, rnd),
            Len(u.sp) + 1)

\* a forward that injects into the header table of the inbound delivery
ForwardMessageSameTable(prop, u, ord) ==
    [Message(IF prop = "composite" THEN Inject("rabbit", u.ctx, u.hdr, ord) ELSE u.hdr, u.body)
        EXCEPT !.ctype = u.ctype]

\* a forward that injects the context extracted from the inbound message
ForwardMessageUpstream(prop, u, ord) ==
    [Message(IF prop = "composite" THEN Inject("rabbit", u.ctx0, NewCarrier, ord) ELSE NewCarrier, u.body)
        EXCEPT !.ctype = u.ctype]

\* the message consumer-1 publishes to task_queue_2
ForwardMessage(prop, u, ord) ==
    [Message(IF prop = "composite" THEN Inject("rabbit", u.ctx, NewCarrier, ord) ELSE NewCarrier, u.body)
        EXCEPT !.ctype = u.ctype]

\* Inject, ch.Publish and the entry written for its outcome
Forwarded(u, m, ok) ==
    IF ok THEN AddLog(AddEv([AddEv(u, "inject", 0) EXCEPT !.pub = Append(@, m)], "publish", 0),
                      u.lg, "Forwarded message to consumer-2")
    ELSE AddLog(AddEv(AddEv(u, "inject", 0), "publishfail", 0), u.lg, "Failed to forward message")

Running(t) == mainpc[t] # "exited"

\* a loop that takes the next delivery wherever it is in its body
AtRangeAnywhere(t) == mainpc[t] = "run"

\* for d := range msgs: the goroutine is at the range statement, the channel is open
AtRange(t) == pc[t] = "wait" /\ mainpc[t] = "run"

\* a producer outside the services publishes to task_queue
PublishExternal ==
    /\ used < MaxStimuli
    /\ \E m \in InboundMessages : tq' = Append(tq, m)
    /\ used' = used + 1
    /\ UNCHANGED <<globals, unit, pc, tq2, mainpc, call, nextTrace, nextSpan, variant, fn>>

\* what consumer-1 does with a delivery before it touches the channel again:
\* nothing more in consumer-1/main.go, processMessage and its error entry in the other build
Processed(u) == IF u.err THEN AddLog(u, u.lg, "Failed to process message") ELSE u

C1Work(tp, u, v, rnd, nt, ns) == IF v = "process" THEN Processed(processMessage(tp, u, rnd, nt, ns)) ELSE u

\* d is the message consumer-1 has just nacked, delivered again.  The spans of the
\* nacked attempt are gone with its unit of work, so the ids the tracer draws for the
\* new attempt are taken to be the same ones again: redelivery can go on for ever
\* without using up the ids of the model.
Retry(d) == d.redelivered /\ unit["c1"].kind = "msg" /\ unit["c1"].err /\ Len(unit["c1"].sp) >= 1

\* consumer-1 takes a delivery: for d := range msgs ... traceLogger.Info("Received a message"),
\* and processMessage(ctx, traceLogger, d.Body) where the build has it
C1Take ==
    /\ AtRange("c1") /\ tq # << >> /\ (Retry(Head(tq)) \/ nextSpan < MaxSpanId)
    /\ \E rnd \in (IF variant = "process" THEN BOOLEAN ELSE {FALSE}) :
         \E nt \in {IF Retry(Head(tq)) THEN unit["c1"].sp[1].sc.tid ELSE nextTrace},
            ns \in {IF Retry(Head(tq)) THEN unit["c1"].sp[1].sc.sid ELSE nextSpan} :
           \E u \in {C1Work(globals["c1"].tp,
                            BeginDelivery(globals["c1"], Head(tq), "Process Message", nt, ns),
                            variant, rnd, nt + 1, ns + 1)} :
             /\ unit' = [unit EXCEPT !["c1"] = u]
             /\ nextTrace' = IF IsValid(u.ctx0.sc) \/ Retry(Head(tq)) THEN nextTrace ELSE nextTrace + 1
             /\ pc' = [pc EXCEPT !["c1"] = IF u.err THEN "nack" ELSE "fwd"]
    /\ nextSpan' = IF Retry(Head(tq)) THEN nextSpan
                   ELSE IF variant = "process" THEN nextSpan + 2 ELSE nextSpan + 1
    /\ tq' = Tail(tq)
    /\ UNCHANGED <<globals, tq2, mainpc, call, used, variant, fn>>

\* d.Nack(false, true) on the error path (on a closed channel it returns an error the
\* loop ignores, otherwise the broker requeues the message), then span.End() and continue
C1Nack ==
    /\ pc["c1"] = "nack" /\ Running("c1")
    /\ IF mainpc["c1"] = "run"
       THEN /\ unit' = [unit EXCEPT !["c1"] = EndSpan(AddEv([@ EXCEPT !.nacks = @ + 1], "nack", 0), 1)]
            /\ tq' = <<[Message(unit["c1"].hdr, unit["c1"].body) EXCEPT !.redelivered = TRUE]>> \o tq
       ELSE /\ unit' = [unit EXCEPT !["c1"] = EndSpan(AddEv(@, "nackfail", 0), 1)]
            /\ tq' = tq
    /\ pc' = [pc EXCEPT !["c1"] = "wait"]
    /\ UNCHANGED <<globals, tq2, mainpc, call, nextTrace, nextSpan, used, variant, fn>>

\* consumer-1 injects the context into new headers and publishes to task_queue_2
C1Forward ==
    /\ pc["c1"] = "fwd" /\ Running("c1")
    /\ \E ok \in BOOLEAN, ord \in Perms(DOMAIN unit["c1"].ctx.bag) :
         \E m \in {ForwardMessage(globals["c1"].prop, unit["c1"], ord)} :
             /\ ok => mainpc["c1"] = "run"
             /\ unit' = [unit EXCEPT !["c1"] = Forwarded(@, m, ok)]
             /\ tq2' = IF ok THEN Append(tq2, m) ELSE tq2
    /\ pc' = [pc EXCEPT !["c1"] = "end"]
    /\ UNCHANGED <<globals, tq, mainpc, call, nextTrace, nextSpan, used, variant, fn>>

\* consumer-2 takes a delivery: ... traceLogger.Info("Received a forwarded message")
C2Take ==
    /\ AtRange("c2") /\ tq2 # << >> /\ nextSpan <= MaxSpanId
    /\ \E u \in {BeginDelivery(globals["c2"], Head(tq2), "Process Forwarded Message", nextTrace, nextSpan)} :
         /\ unit' = [unit EXCEPT !["c2"] = u]
         /\ nextTrace' = IF IsValid(u.ctx0.sc) THEN nextTrace ELSE nextTrace + 1
    /\ nextSpan' = nextSpan + 1
    /\ tq2' = Tail(tq2)
    /\ pc' = [pc EXCEPT !["c2"] = "end"]
    /\ UNCHANGED <<globals, tq, mainpc, call, used, variant, fn>>

\* a loop that nacks with requeue when the forward publish has failed
EndAndAckNackOnFail(t) ==
    /\ pc[t] = "end" /\ Running(t)
    /\ IF \E i \in 1..Len(unit[t].ev) : unit[t].ev[i].e = "publishfail"
       THEN /\ unit' = [unit EXCEPT ![t] = AddEv([EndSpan(@, 1) EXCEPT !.nacks = @ + 1], "nack", 0)]
            /\ tq' = <<[Message(unit[t].hdr, unit[t].body) EXCEPT !.redelivered = TRUE]>> \o tq
       ELSE /\ unit' = [unit EXCEPT ![t] = IF mainpc[t] = "run"
                                           THEN AddEv([EndSpan(@, 1) EXCEPT !.acks = @ + 1], "ack", 0)
                                           ELSE AddEv(EndSpan(@, 1), "ackfail", 0)]
            /\ tq' = tq
    /\ pc' = [pc EXCEPT ![t] = "wait"]
    /\ UNCHANGED <<globals, tq2, mainpc, call, nextTrace, nextSpan, used, variant, fn>>

\* the success path of either consumer: if span != nil { span.End() }, then
\* d.Ack(false), which on a closed channel returns an error the loop ignores
EndAndAck(t) ==
    /\ pc[t] = "end" /\ Running(t)
    /\ unit' = [unit EXCEPT ![t] = IF mainpc[t] = "run"
                                   THEN AddEv([EndSpan(@, 1) EXCEPT !.acks = @ + 1], "ack", 0)
                                   ELSE AddEv(EndSpan(@, 1), "ackfail", 0)]
    /\ pc' = [pc EXCEPT ![t] = "wait"]
    /\ UNCHANGED <<globals, tq, tq2, mainpc, call, nextTrace, nextSpan, used, variant, fn>>

\* main of a consumer: <-stop, ch.Close(), conn.Close()
Shutdown(t) ==
    /\ mainpc[t] = "run"
    /\ mainpc' = [mainpc EXCEPT ![t] = "closed"]
    /\ UNCHANGED <<globals, unit, pc, tq, tq2, call, nextTrace, nextSpan, used, variant, fn>>

\* main returns: the process ends, and the consume goroutine with it.  A loop that
\* has left range msgs does nothing more, so the exit is a step only while the
\* goroutine is in the loop body.
Exit(t) ==
    /\ mainpc[t] = "closed" /\ pc[t] # "wait"
    /\ mainpc' = [mainpc EXCEPT ![t] = "exited"]
    /\ UNCHANGED <<globals, unit, pc, tq, tq2, call, nextTrace, nextSpan, used, variant, fn>>

(***************************************************************************)
(* The HTTP handlers of app-1 and app-2.  No middleware sets the user      *)
(* context of a request, so c.UserContext() is context.Background().       *)
(***************************************************************************)
UserContext == Background

Request(route, hdr, caller) ==
    [IdleUnit EXCEPT !.kind = "http", !.route = route, !.hdr = hdr, !.caller = caller,
                     !.ev = <<[e |-> "recv", s |-> 0]>>]

HandlerSpan(u, r) ==
    AddSpan([u EXCEPT !.ctx0 = UserContext, !.ctx = r.ctx, !.spanId = SpanIDString(r.span.sc)], r.span)

\* ctx := c.UserContext(); ctx, span := tracer.Start(ctx, name); defer span.End()
\* currentSpanId := span.SpanContext().SpanID().String()
BeginRequest(route, hdr, caller, nt, ns) ==
    HandlerSpan(Request(route, hdr, caller), StartSpan(UserContext, route, nt, ns))

\* logger.WithTrace(ctx, currentSpanId).Info(m) in a handler
TraceLog(u, m) == AddLog(u, WithTrace(BaseLogger, u.ctx, u.spanId), m)

\* log.Error(m, zap.String("trace_id", currentSpanId), ...) on the logger handed to RegisterRoutes
BaseLog(u, m) == AddLog(u, BaseLogger \o <<Field("trace_id", u.spanId)>>, m)

\* a handler that returns without ending its span
FinishNoEnd(u, status) == Respond(u, status)

\* a handler that sets the status of its span after ending it
FinishThenSet(u, status) == Respond(SetStatus(EndSpan(u, 1), 1), status)

\* the deferred span.End() of the handler, then its return
Finish(u, status) == Respond(EndSpan(u, 1), status)

\* a helper that starts its span from a background context
ChildSpanDetached(u, name, nt, ns) == AddSpan(u, StartSpan(Background, name, nt, ns).span)

\* _, span := otel.Tracer(...).Start(ctx, name) in a helper: the context it returns is dropped
ChildSpan(u, name, nt, ns) == AddSpan(u, StartSpan(u.ctx, name, nt, ns).span)

\* logger.WithTrace(ctx, span.SpanContext().SpanID().String()).Info(m) in the helper
\* whose span is the unit's i-th
HelperLog(u, i, m) == AddLog(u, WithTrace(BaseLogger, u.ctx, SpanIDString(u.sp[i].sc)), m)

simulateSlowFunction(u, nt, ns) ==
    EndSpan(HelperLog(SetAttributes(ChildSpan(u, "simulateSlowFunction", nt, ns), Len(u.sp) + 1),
                      Len(u.sp) + 1, "simulateSlowFunction working"),
            Len(u.sp) + 1)

simulateRandomDelay(u, nt, ns) ==
    EndSpan(HelperLog(SetAttributes(ChildSpan(u, "simulateRandomDelay", nt, ns), Len(u.sp) + 1),
                      Len(u.sp) + 1, "simulateRandomDelay working"),
            Len(u.sp) + 1)

RandomOutcome(u, i, rnd) == IF rnd THEN Failed(SetStatus(RecordError(u, i), i)) ELSE u

\* rnd is rand.Intn(2) == 0
simulateRandomError(u, rnd, nt, ns) ==
    EndSpan(RandomOutcome(HelperLog(ChildSpan(u, "simulateRandomError", nt, ns), Len(u.sp) + 1,
                                    "simulateRandomError working"),
                          Len(u.sp) + 1, rnd),
            Len(u.sp) + 1)

\* a step1Subtask that runs in the context of step1's span
step1SubtaskNested(u, nt, ns) ==
    EndSpan(HelperLog(AddSpan(u, StartSpan([u.ctx EXCEPT !.sc = u.sp[Len(u.sp)].sc],
                                           "step1Subtask", nt, ns).span),
                      Len(u.sp) + 1, "step1Subtask working"),
            Len(u.sp) + 1)

step1Subtask(u, nt, ns) ==
    EndSpan(HelperLog(ChildSpan(u, "step1Subtask", nt, ns), Len(u.sp) + 1, "step1Subtask working"),
            Len(u.sp) + 1)

\* a step1 whose span ends while the span of step1Subtask is still open
step1EndsEarly(u, nt, ns) ==
    EndSpan(EndSpan(HelperLog(ChildSpan(HelperLog(ChildSpan(u, "step1", nt, ns), Len(u.sp) + 1, "step1 working"),
                                        "step1Subtask", nt, ns + 1),
                              Len(u.sp) + 2, "step1Subtask working"),
                    Len(u.sp) + 1),
            Len(u.sp) + 2)

step1(u, nt, ns) ==
    EndSpan(step1Subtask(HelperLog(ChildSpan(u, "step1", nt, ns), Len(u.sp) + 1, "step1 working"),
                         nt, ns + 1),
            Len(u.sp) + 1)

step2(u, nt, ns) ==
    EndSpan(HelperLog(ChildSpan(u, "step2", nt, ns), Len(u.sp) + 1, "step2 working"), Len(u.sp) + 1)

step3(u, nt, ns) ==
    EndSpan(HelperLog(ChildSpan(u, "step3", nt, ns), Len(u.sp) + 1, "step3 working"), Len(u.sp) + 1)

\* the tail of the /random-error handler
RandomErrorResult(u) ==
    IF u.err
    THEN Finish(TraceLog(SetStatus(RecordError(u, 1), 1), "error in /random-error"), 500)
    ELSE Finish(TraceLog(u, "random-error success"), 200)

\* app.Get("/hello", ...) of app-1
Hello ==
    /\ pc["app1"] = "wait" /\ mainpc["app1"] = "run" /\ used < MaxStimuli /\ nextSpan + 1 <= MaxSpanId
    /\ \E hdr \in RequestHeaders :
         unit' = [unit EXCEPT !["app1"] =
                    Finish(TraceLog(simulateSlowFunction(
                               TraceLog(BeginRequest("GET /hello", hdr, "client", nextTrace, nextSpan),
                                        "handling /hello"),
                               nextTrace + 1, nextSpan + 1),
                           "hello success"), 200)]
    /\ nextTrace' = nextTrace + 1 /\ nextSpan' = nextSpan + 2 /\ used' = used + 1
    /\ UNCHANGED <<globals, pc, tq, tq2, mainpc, call, variant, fn>>

\* app.Get("/random-delay", ...) of app-1
RandomDelay ==
    /\ pc["app1"] = "wait" /\ mainpc["app1"] = "run" /\ used < MaxStimuli /\ nextSpan + 1 <= MaxSpanId
    /\ \E hdr \in RequestHeaders :
         unit' = [unit EXCEPT !["app1"] =
                    Finish(simulateRandomDelay(
                               TraceLog(BeginRequest("GET /random-delay", hdr, "client", nextTrace, nextSpan),
                                        "random-delay working"),
                               nextTrace + 1, nextSpan + 1), 200)]
    /\ nextTrace' = nextTrace + 1 /\ nextSpan' = nextSpan + 2 /\ used' = used + 1
    /\ UNCHANGED <<globals, pc, tq, tq2, mainpc, call, variant, fn>>

\* app.Get("/random-error", ...) of app-1 and of app-2
RandomError(a) ==
    /\ pc[a] = "wait" /\ mainpc[a] = "run" /\ used < MaxStimuli /\ nextSpan + 1 <= MaxSpanId
    /\ \E hdr \in RequestHeaders, rnd \in BOOLEAN :
         unit' = [unit EXCEPT ![a] =
                    RandomErrorResult(simulateRandomError(
                        TraceLog(BeginRequest("GET /random-error", hdr, "client", nextTrace, nextSpan),
                                 "random-error working"),
                        rnd, nextTrace + 1, nextSpan + 1))]
    /\ nextTrace' = nextTrace + 1 /\ nextSpan' = nextSpan + 2 /\ used' = used + 1
    /\ UNCHANGED <<globals, pc, tq, tq2, mainpc, call, variant, fn>>

\* app.Get("/chain", ...) of app-1
Chain ==
    /\ pc["app1"] = "wait" /\ mainpc["app1"] = "run" /\ used < MaxStimuli /\ nextSpan + 4 <= MaxSpanId
    /\ \E hdr \in RequestHeaders :
         unit' = [unit EXCEPT !["app1"] =
                    Finish(step3(step2(step1(
                               TraceLog(BeginRequest("GET /chain", hdr, "client", nextTrace, nextSpan),
                                        "chain working"),
                               nextTrace + 1, nextSpan + 1),
                             nextTrace + 1, nextSpan + 3),
                           nextTrace + 1, nextSpan + 4), 200)]
    /\ nextTrace' = nextTrace + 1 /\ nextSpan' = nextSpan + 5 /\ used' = used + 1
    /\ UNCHANGED <<globals, pc, tq, tq2, mainpc, call, variant, fn>>

\* the request /call-app2 builds: http.NewRequestWithContext and the two req.Header.Set
RequestOut(u) ==
    WithHeader(WithHeader(NewCarrier, "Content-Type", StrVal(<<"application/json">>)),
               "X-Request-ID", StrVal(MapGet(u.hdr, "X-Request-ID")))

\* client.Do(req) through otelhttp.NewTransport: the transport starts a client span
\* under the request's context and injects that span's context in the request headers
RoundTrip(u, r) == AddEv(AddSpan(u, r.span), "inject", 0)

RoundTripHeaders(u, r, ord) == Inject("map", r.ctx, RequestOut(u), ord)

\* app.Get("/call-app2", ...) of app-1, up to the request being sent
CallApp2 ==
    /\ pc["app1"] = "wait" /\ mainpc["app1"] = "run" /\ used < MaxStimuli /\ nextSpan + 1 <= MaxSpanId /\ call.st = "none"
    /\ \E hdr \in RequestHeaders :
         \E u \in {TraceLog(BeginRequest("GET /call-app2", hdr, "client", nextTrace, nextSpan),
                            "Calling app-2 service")} :
           \E ord \in Perms(DOMAIN u.ctx.bag) :
             /\ unit' = [unit EXCEPT !["app1"] =
                           RoundTrip(u, StartSpan(u.ctx, "HTTP POST", nextTrace + 1, nextSpan + 1))]
             /\ call' = [st |-> "sent", status |-> 0,
                         hdr |-> RoundTripHeaders(u, StartSpan(u.ctx, "HTTP POST", nextTrace + 1, nextSpan + 1), ord)]
    /\ pc' = [pc EXCEPT !["app1"] = "calling"]
    /\ nextTrace' = nextTrace + 1 /\ nextSpan' = nextSpan + 2 /\ used' = used + 1
    /\ UNCHANGED <<globals, tq, tq2, mainpc, variant, fn>>

\* client.Do returns an error: the transport records it on the client span and ends it,
\* the handler records it on its span and answers 500
CallApp2Failed ==
    /\ pc["app1"] = "calling" /\ call.st = "sent"
    /\ unit' = [unit EXCEPT !["app1"] =
                  Finish(SetStatus(RecordError(EndSpan(SetStatus(RecordError(@, 2), 2), 2), 1), 1), 500)]
    /\ call' = [call EXCEPT !.st = "none"]
    /\ pc' = [pc EXCEPT !["app1"] = "wait"]
    /\ UNCHANGED <<globals, tq, tq2, mainpc, nextTrace, nextSpan, used, variant, fn>>

\* the tail of /call-app2 once app-2 has answered; the deferred resp.Body.Close()
\* ends the client span before the deferred span.End()
CallApp2Result(u, status) ==
    IF status # 200
    THEN Finish(EndSpan(SetStatus(RecordError(SetStatus(u, 2), 1), 1), 2), status)
    ELSE Finish(EndSpan(TraceLog(u, "Successfully called app-2"), 2), 200)

CallApp2Return ==
    /\ pc["app1"] = "calling" /\ call.st = "done"
    /\ unit' = [unit EXCEPT !["app1"] = CallApp2Result(@, call.status)]
    /\ call' = [call EXCEPT !.st = "none"]
    /\ pc' = [pc EXCEPT !["app1"] = "wait"]
    /\ UNCHANGED <<globals, tq, tq2, mainpc, nextTrace, nextSpan, used, variant, fn>>

App2Body == <<"Hello from app-2">>

\* POST /process of app-2 up to the connection to the broker
ProcessHead(hdr, caller, nt, ns) ==
    SetAttributes(simulateRandomDelay(TraceLog(BeginRequest("POST /process", hdr, caller, nt, ns),
                                               "Received process request"),
                                      nt + 1, ns + 1),
                  1)

\* the rest of POST /process: out is what the broker calls do
ProcessOutcome(u, out, m) ==
    IF out = "dial" THEN Finish(BaseLog(u, "Failed to connect to RabbitMQ"), 500)
    ELSE IF out = "channel" THEN Finish(BaseLog(u, "Failed to open a channel"), 500)
    ELSE IF out = "publish"
    THEN Finish(BaseLog(AddEv(AddEv(u, "inject", 0), "publishfail", 0), "Failed to publish message"), 500)
    ELSE Finish(BaseLog(AddEv([AddEv(u, "inject", 0) EXCEPT !.pub = Append(@, m)], "publish", 0),
                        "Message sent to consumer-1"), 200)

\* app.Post("/process", ...) of app-2, called by app-1's /call-app2 or by another client
Process(caller) ==
    /\ pc["app2"] = "wait" /\ mainpc["app2"] = "run" /\ nextSpan + 1 <= MaxSpanId
    /\ IF caller = "app1" THEN call.st = "sent" /\ used' = used
                          ELSE used < MaxStimuli /\ used' = used + 1
    /\ \E hdr \in (IF caller = "app1" THEN {call.hdr} ELSE RequestHeaders),
          out \in {"ok", "dial", "channel", "publish"} :
         \E u \in {ProcessHead(hdr, caller, nextTrace, nextSpan)} :
           \E ord \in Perms(DOMAIN u.ctx.bag) :
             \E m \in {Message(Inject("rabbit", u.ctx, NewCarrier, ord), App2Body)} :
               /\ unit' = [unit EXCEPT !["app2"] = ProcessOutcome(u, out, m)]
               /\ tq' = IF out = "ok" THEN Append(tq, m) ELSE tq
               /\ call' = IF caller = "app1"
                          THEN [call EXCEPT !.st = "done", !.status = IF out = "ok" THEN 200 ELSE 500]
                          ELSE call
    /\ nextTrace' = nextTrace + 1 /\ nextSpan' = nextSpan + 2
    /\ UNCHANGED <<globals, pc, tq2, mainpc, variant, fn>>

NoSpan == NewSpan(NoSC, 0, "", FALSE)

NoFn == [pc |-> "off", kind |-> "map", tp |-> "sdk", car0 |-> NewCarrier, car1 |-> NewCarrier, sets |-> 0,
         key |-> "", val |-> << >>, gkey |-> "", got |-> << >>, keys |-> << >>, ord |-> << >>, in |-> Background, car |-> NewCarrier, out |-> Background,
         sid |-> << >>, log |-> BaseLogger, span |-> NoSpan, du |-> IdleUnit,
         base |-> BaseLogger, calls |-> 0, in0 |-> Background, sid0 |-> << >>, log0 |-> BaseLogger,
         raw |-> AnyOther, json |-> << >>, conv |-> NewCarrier, conv2 |-> NewCarrier, ord2 |-> << >>]

Init ==
    /\ unit = [t \in Tasks |-> IdleUnit]
    /\ pc = [t \in Tasks |-> "wait"]
    /\ tq = << >> /\ tq2 = << >>
    /\ mainpc = [t \in Tasks |-> "run"]
    /\ call = [st |-> "none", status |-> 0, hdr |-> NewCarrier]
    /\ nextTrace = 1 /\ nextSpan = 1
    /\ used = 0
    /\ variant \in {"simple", "process"}
    /\ fn = NoFn
    /\ globals = [t \in Tasks |-> initTracer(TRUE)]

Next ==
    \/ PublishExternal
    \/ C1Take
    \/ C1Nack
    \/ C1Forward
    \/ C2Take
    \/ \E t \in Consumers : EndAndAck(t)
    \/ \E t \in Consumers : Shutdown(t)
    \/ \E t \in Consumers : Exit(t)
    \/ Hello
    \/ RandomDelay
    \/ \E a \in Apps : RandomError(a)
    \/ Chain
    \/ CallApp2
    \/ CallApp2Failed
    \/ CallApp2Return
    \/ \E caller \in {"client", "app1"} : Process(caller)

Spec == Init /\ [][Next]_vars

(***************************************************************************)
(* The consumers when consumer-1 starts on a queue that holds messages:    *)
(* task_queue is durable, so what was published while the consumer was     *)
(* down is delivered, in order, once it registers.                         *)
(***************************************************************************)
InitBacklog ==
    /\ unit = [t \in Tasks |-> IdleUnit]
    /\ pc = [t \in Tasks |-> "wait"]
    /\ tq \in {<<Message(h, <<"a">>), Message(NilCarrier, b)>> :
                  h \in {Inject("rabbit", [sc |-> ExtSC(1), bag |-> EmptyBag], NewCarrier, << >>),
                         WithHeader(NewCarrier, "x-other", StrVal(<<"a">>))},
                  b \in {<< >>, <<"b">>}}
    /\ tq2 = << >>
    /\ mainpc = [t \in Tasks |-> "run"]
    /\ call = [st |-> "none", status |-> 0, hdr |-> NewCarrier]
    /\ nextTrace = 1 /\ nextSpan = 1
    /\ used = 0
    /\ variant \in {"simple", "process"}
    /\ fn = NoFn
    /\ globals = [t \in Tasks |-> initTracer(TRUE)]

\* the steps of the two consumers
NextBacklog ==
    \/ C1Take
    \/ C1Nack
    \/ C1Forward
    \/ C2Take
    \/ \E t \in Consumers : EndAndAck(t)
    \/ \E t \in Consumers : Shutdown(t)
    \/ \E t \in Consumers : Exit(t)

SpecBacklog == InitBacklog /\ [][NextBacklog]_vars

(***************************************************************************)
(* Progress of consumer-1.  Its goroutine keeps running while the process  *)
(* lives, so each step of the loop that stays possible is taken (weak      *)
(* fairness), and rand.Intn(3) does not give 0 for ever: a take in which   *)
(* processing succeeds happens if it is possible again and again (strong   *)
(* fairness).  The two conditions on the take are on the position of the   *)
(* goroutine, which only C1Take moves away from the range statement.       *)
(***************************************************************************)
\* range msgs hands consumer-1 a delivery
C1CanTake == AtRange("c1") /\ tq # << >> /\ (Retry(Head(tq)) \/ nextSpan < MaxSpanId)

\* the goroutine leaves the range statement with a delivery
C1Taken == C1CanTake /\ \E e \in {"nack", "fwd"} : pc' = [pc EXCEPT !["c1"] = e]

\* it leaves it for the forward path: processing returned no error, which the empty
\* body of processMessage's check rules out
C1TakenOk ==
    /\ C1CanTake /\ (variant = "simple" \/ Head(tq).body # << >>)
    /\ pc' = [pc EXCEPT !["c1"] = "fwd"]

FairC1 ==
    /\ WF_pc(C1Taken) /\ SF_pc(C1TakenOk)
    /\ WF_vars(C1Nack) /\ WF_vars(C1Forward) /\ WF_vars(EndAndAck("c1"))

SpecLive == Init /\ [][Next]_vars /\ FairC1

(***************************************************************************)
(* The services from the start of main.                                    *)
(***************************************************************************)
\* what the startup of main can meet.  A consumer dials the broker, opens a
\* channel, declares its queue and registers as consumer; an app builds the gRPC
\* client, the exporter and the resource, and listens.  "tempo down" is a collector
\* that cannot be reached: grpc.NewClient does not connect, so no call returns an error.
StartupOutcomes(t) ==
    IF t \in Consumers THEN {"ok", "dial", "channel", "declare", "consume"}
    ELSE {"ok", "tempo down", "client", "exporter", "resource", "listen"}

\* whether initTracer gets an exporter: the consumers build a provider without one,
\* except the consumer-1 with processMessage, whose otlptrace.New succeeds or fails;
\* an app that gets none ends at startup
ExporterOutcomes(t) ==
    IF t = "c1" /\ variant = "process" THEN BOOLEAN
    ELSE IF t \in Consumers THEN {FALSE} ELSE {TRUE}

\* where main is after startup: a consumer logs the error and returns (exit status
\* 0), an app calls zapLogger.Fatal (os.Exit(1))
StartupResult(t, out) ==
    IF out \in {"ok", "tempo down"} THEN "run"
    ELSE IF t \in Consumers THEN "exit0" ELSE "exit1"

\* main of process t up to the consume loop or app.Listen
Startup(t) ==
    /\ mainpc[t] = "init"
    /\ \E out \in StartupOutcomes(t), exp \in ExporterOutcomes(t) :
         /\ mainpc' = [mainpc EXCEPT ![t] = StartupResult(t, out)]
         /\ globals' = [globals EXCEPT ![t] = IF t \in Apps /\ out \in {"client", "exporter", "resource"}
                                              THEN @ ELSE initTracer(exp)]
    /\ UNCHANGED <<unit, pc, tq, tq2, call, nextTrace, nextSpan, used, variant, fn>>

InitStart ==
    /\ unit = [t \in Tasks |-> IdleUnit]
    /\ pc = [t \in Tasks |-> "wait"]
    /\ tq = << >> /\ tq2 = << >>
    /\ mainpc = [t \in Tasks |-> "init"]
    /\ call = [st |-> "none", status |-> 0, hdr |-> NewCarrier]
    /\ nextTrace = 1 /\ nextSpan = 1
    /\ used = 0
    /\ variant \in {"simple", "process"}
    /\ fn = NoFn
    /\ globals = [t \in Tasks |-> [tp |-> "noop", prop |-> "none", exporter |-> FALSE]]

NextStart == (\E t \in Tasks : Startup(t)) \/ Next

SpecStart == InitStart /\ [][NextStart]_vars

\* the two consumers from the start of main, fed by producers outside the services
NextBoot == (\E t \in Consumers : Startup(t)) \/ PublishExternal \/ NextBacklog

SpecBoot == InitStart /\ [][NextBoot]_vars

(***************************************************************************)
(* The propagation and logging functions applied on their own, to every    *)
(* argument of a bounded set.                                              *)
(***************************************************************************)
\* the valid span contexts a context is built from
ValidSCs == { ExtSC(0), ExtSC(1),
              [tid |-> 1, sid |-> 1, flags |-> 1, remote |-> FALSE],
              [tid |-> 16, sid |-> ExtSid - 1, flags |-> 0, remote |-> TRUE] }

\* span contexts that are not valid: no ids, no SpanID, no TraceID
InvalidSCs == { NoSC,
                [tid |-> ExtTid, sid |-> 0, flags |-> 1, remote |-> FALSE],
                [tid |-> 0, sid |-> ExtSid, flags |-> 1, remote |-> TRUE] }

\* the spanId arguments handed to WithTrace
SpanIdStrings == { << >>, ToHex(0, SpanIDHexLen), ToHex(ExtSid, SpanIDHexLen), Garbage }

Kinds == {"map", "rabbit"}

\* header values of a carrier of the kind: a map[string]string holds strings only
HeaderVals(kind, s) == IF kind = "map" THEN {StrVal(s)} ELSE {StrVal(s), RawVal(s)}

\* carriers no trace can be read from: no table, no header, other headers only, a
\* malformed traceparent, a traceparent that is not a string, each with or without baggage
GarbageCarriers(kind) ==
    {NilCarrier, NewCarrier, WithHeader(NewCarrier, "x-other", StrVal(<<"a">>))}
    \cup {WithHeader(NewCarrier, TraceparentHeader, StrVal(t)) : t \in MalformedTraceparents}
    \cup {WithHeader(NewCarrier, TraceparentHeader, v) : v \in HeaderVals(kind, ExtTraceparent) \ {StrVal(ExtTraceparent)}}
    \cup {WithHeader(WithHeader(NewCarrier, TraceparentHeader, StrVal(t)), BaggageHeader, StrVal(b)) :
             t \in {Garbage, << >>}, b \in MalformedBaggages \cup {<<"k", "=", "a">>}}
    \cup {WithHeader(NewCarrier, BaggageHeader, v) : v \in HeaderVals(kind, <<"k", "=", "a">>)}

\* Inject into a new empty carrier: shared.InjectTraceContext for a string map,
\* a RabbitMQCarrier over make(amqp091.Table) otherwise
FnInject ==
    /\ fn.pc = "off"
    /\ \E kind \in Kinds, sc \in ValidSCs, bag \in Baggages :
         \E ord \in Perms(DOMAIN bag) :
           fn' = [fn EXCEPT !.pc = "injected", !.kind = kind, !.in = [sc |-> sc, bag |-> bag],
                            !.car = IF kind = "map" THEN InjectTraceContext([sc |-> sc, bag |-> bag], ord)
                                    ELSE Inject(kind, [sc |-> sc, bag |-> bag], NewCarrier, ord)]
    /\ UNCHANGED <<globals, unit, pc, tq, tq2, mainpc, call, nextTrace, nextSpan, used, variant>>

\* Extract from the carrier just written, into a background context
FnExtract ==
    /\ fn.pc = "injected"
    /\ fn' = [fn EXCEPT !.pc = "extracted",
                        !.out = IF fn.kind = "map" THEN ExtractTraceContext(Background, fn.car)
                                ELSE Extract(fn.kind, Background, fn.car)]
    /\ UNCHANGED <<globals, unit, pc, tq, tq2, mainpc, call, nextTrace, nextSpan, used, variant>>

\* Extract from a carrier that holds no usable propagation field
FnDegrade ==
    /\ fn.pc = "off"
    /\ \E kind \in Kinds :
         \E car \in GarbageCarriers(kind) :
           fn' = [fn EXCEPT !.pc = "degraded", !.kind = kind, !.car = car,
                            !.out = IF kind = "map" THEN ExtractTraceContext(Background, car)
                                    ELSE Extract(kind, Background, car)]
    /\ UNCHANGED <<globals, unit, pc, tq, tq2, mainpc, call, nextTrace, nextSpan, used, variant>>

\* where Start found a provider, no provider, a parent, no parent
Position(tp, from) == IF tp = "noop" THEN "disabled" ELSE IF from = "extracted" THEN "child" ELSE "root"

\* shared.Trace(ctx, layer, funcName, spanName) applied to the context just extracted
\* from a string map; the package registers no tracer provider itself
FnTrace ==
    /\ fn.pc \in {"extracted", "degraded"} /\ fn.kind = "map"
    /\ \E tp \in {"sdk", "noop"} :
         \E r \in {Trace(tp, fn.out, "unit of work", nextTrace, nextSpan)} :
           fn' = [fn EXCEPT !.pc = Position(tp, fn.pc), !.tp = tp,
                            !.span = r.span, !.sid = r.spanId]
    /\ UNCHANGED <<globals, unit, pc, tq, tq2, mainpc, call, nextTrace, nextSpan, used, variant>>

\* the head of consumer-1's loop body applied to a delivery that has the carrier's
\* header table; otel.Tracer is taken for every delivery, and gives the no-op tracer
\* once main's deferred cleanup has shut the provider down
FnDeliver ==
    /\ fn.pc \in {"extracted", "degraded"} /\ fn.kind = "rabbit"
    /\ \E tp \in {"sdk", "noop"} :
         \E u \in {BeginDelivery([tp |-> tp, prop |-> "composite"], Message(fn.car, <<"a">>),
                                 "Process Message", nextTrace, nextSpan)} :
           fn' = [fn EXCEPT !.pc = Position(tp, fn.pc), !.tp = tp,
                            !.span = u.sp[1], !.sid = u.spanId, !.du = u]
    /\ UNCHANGED <<globals, unit, pc, tq, tq2, mainpc, call, nextTrace, nextSpan, used, variant>>

\* logger.WithTrace(ctx, spanId)
FnWithTrace ==
    /\ fn.pc = "off"
    /\ \E sc \in ValidSCs \cup InvalidSCs, bag \in {EmptyBag, OneBag}, spanId \in SpanIdStrings :
         fn' = [fn EXCEPT !.pc = "logged", !.in = [sc |-> sc, bag |-> bag], !.sid = spanId,
                          !.log = WithTrace(fn.base, [sc |-> sc, bag |-> bag], spanId),
                          !.base = PackageLogger(fn.base, [sc |-> sc, bag |-> bag], spanId),
                          !.calls = 1]
    /\ UNCHANGED <<globals, unit, pc, tq, tq2, mainpc, call, nextTrace, nextSpan, used, variant>>

\* another unit of work of the process calls WithTrace after the first; in0, sid0 and
\* log0 keep the arguments and the logger of the call before
FnWithTraceNext ==
    /\ fn.pc = "logged" /\ fn.calls < MaxCalls
    /\ \E sc \in ValidSCs \cup InvalidSCs, spanId \in SpanIdStrings :
         fn' = [fn EXCEPT !.in0 = fn.in, !.sid0 = fn.sid, !.log0 = fn.log,
                          !.in = [sc |-> sc, bag |-> EmptyBag], !.sid = spanId,
                          !.log = WithTrace(fn.base, [sc |-> sc, bag |-> EmptyBag], spanId),
                          !.base = PackageLogger(fn.base, [sc |-> sc, bag |-> EmptyBag], spanId),
                          !.calls = @ + 1]
    /\ UNCHANGED <<globals, unit, pc, tq, tq2, mainpc, call, nextTrace, nextSpan, used, variant>>

\* the earlier logger.WithTrace(ctx)
FnWithTraceCtx ==
    /\ fn.pc = "off"
    /\ \E sc \in ValidSCs \cup InvalidSCs, bag \in {EmptyBag, OneBag} :
         fn' = [fn EXCEPT !.pc = "loggedctx", !.in = [sc |-> sc, bag |-> bag],
                          !.log = WithTraceCtx(BaseLogger, [sc |-> sc, bag |-> bag])]
    /\ UNCHANGED <<globals, unit, pc, tq, tq2, mainpc, call, nextTrace, nextSpan, used, variant>>

HeaderNames == {TraceparentHeader, BaggageHeader, "x-other"}

\* header tables a RabbitMQCarrier is put over: nil, and every table over HeaderNames
\* whose values are a string, an empty string, or something that is not a string
Tables ==
    {NilCarrier} \cup
    {[NewCarrier EXCEPT !.h = h] :
        h \in UNION {[K -> {StrVal(<<"a">>), StrVal(<< >>), RawVal(<<"a">>)}] : K \in SUBSET HeaderNames}}

\* carrier := &RabbitMQCarrier{headers: table}
FnCarrier ==
    /\ fn.pc = "off"
    /\ \E c \in Tables : fn' = [fn EXCEPT !.pc = "carrier", !.kind = "rabbit", !.car0 = c, !.car = c]
    /\ UNCHANGED <<globals, unit, pc, tq, tq2, mainpc, call, nextTrace, nextSpan, used, variant>>

\* carrier.Get(key)
FnGet ==
    /\ fn.pc \in {"carrier", "set"} /\ ~fn.car.panicked
    /\ \E key \in HeaderNames :
         fn' = [fn EXCEPT !.pc = "got", !.gkey = key, !.got = Get(fn.car, key)]
    /\ UNCHANGED <<globals, unit, pc, tq, tq2, mainpc, call, nextTrace, nextSpan, used, variant>>

\* carrier.Set(key, value)
FnSet ==
    /\ fn.pc \in {"carrier", "set"} /\ ~fn.car.panicked /\ fn.sets < MaxSets
    /\ \E key \in HeaderNames, value \in {<< >>, <<"a">>, <<"b">>} :
         fn' = [fn EXCEPT !.pc = "set", !.key = key, !.val = value, !.sets = @ + 1,
                          !.car = Set(fn.car, key, value)]
    /\ UNCHANGED <<globals, unit, pc, tq, tq2, mainpc, call, nextTrace, nextSpan, used, variant>>

\* carrier.Keys()
FnKeys ==
    /\ fn.pc \in {"carrier", "set"} /\ ~fn.car.panicked
    /\ \E ord \in Perms(DOMAIN fn.car.h) :
         fn' = [fn EXCEPT !.pc = "keys", !.keys = Keys(fn.car, ord)]
    /\ UNCHANGED <<globals, unit, pc, tq, tq2, mainpc, call, nextTrace, nextSpan, used, variant>>

\* Inject into a carrier that is empty, holds another header, or holds the
\* propagation fields of another trace
FnInjectOver ==
    /\ fn.pc = "off"
    /\ \E kind \in Kinds, sc \in ValidSCs \cup {NoSC}, bag \in {EmptyBag, OneBag, [k \in BagKeys |-> <<"%">>]},
          c \in {NewCarrier, WithHeader(NewCarrier, "x-other", StrVal(<<"a">>)),
                 Inject("rabbit", [sc |-> ExtSC(0), bag |-> OneBag], NewCarrier, <<<<"k">>>>)} :
         \E ord \in Perms(DOMAIN bag) :
           \E c1 \in {Inject(kind, [sc |-> sc, bag |-> bag], c, ord)} :
             fn' = [fn EXCEPT !.pc = "over", !.kind = kind, !.in = [sc |-> sc, bag |-> bag],
                              !.car0 = c, !.car1 = c1, !.car = c1, !.ord = ord, !.sets = 1]
    /\ UNCHANGED <<globals, unit, pc, tq, tq2, mainpc, call, nextTrace, nextSpan, used, variant>>

\* Inject once more, with the same context, into the same carrier
FnInjectAgain ==
    /\ fn.pc \in {"over", "again"} /\ fn.sets <= MaxSets
    /\ \E ord \in Perms(DOMAIN fn.in.bag) :
         fn' = [fn EXCEPT !.pc = "again", !.car = Inject(fn.kind, fn.in, fn.car, ord), !.ord = ord,
                          !.sets = @ + 1]
    /\ UNCHANGED <<globals, unit, pc, tq, tq2, mainpc, call, nextTrace, nextSpan, used, variant>>

\* the prologue of a handler (/hello): UserContext, Start on the tracer taken after
\* initTracer, the span id string, and the first entry written through WithTrace
FnHandle ==
    /\ fn.pc = "off"
    /\ \E hdr \in RequestHeaders :
         \E u \in {BeginRequest("GET /hello", hdr, "client", nextTrace, nextSpan)} :
           fn' = [fn EXCEPT !.pc = "handled", !.kind = "http", !.car = hdr,
                            !.span = u.sp[1], !.sid = u.spanId,
                            !.du = TraceLog(u, "handling /hello")]
    /\ UNCHANGED <<globals, unit, pc, tq, tq2, mainpc, call, nextTrace, nextSpan, used, variant>>

\* the JSON transport: the carrier of one InjectTraceContext call, the text of one
\* InjectTraceContextJSON call for the same context, the text converted as it is and
\* converted after a decoding to map[string]any, and the context extracted from it
FnJSON ==
    /\ fn.pc = "off"
    /\ \E sc \in ValidSCs \cup {NoSC}, bag \in Baggages :
         \E ord \in Perms(DOMAIN bag), ord2 \in Perms(DOMAIN bag) :
           \E text \in {InjectTraceContextJSON([sc |-> sc, bag |-> bag], ord2)} :
             fn' = [fn EXCEPT !.pc = "json", !.kind = "map", !.in = [sc |-> sc, bag |-> bag],
                              !.ord = ord, !.ord2 = ord2,
                              !.car = InjectTraceContext([sc |-> sc, bag |-> bag], ord),
                              !.json = text,
                              !.conv = ConvertToMap(AnyString(text)),
                              !.conv2 = ConvertToMap(UnmarshalAny(text)),
                              !.out = ExtractTraceContext(Background, ConvertToMap(AnyString(text)))]
    /\ UNCHANGED <<globals, unit, pc, tq, tq2, mainpc, call, nextTrace, nextSpan, used, variant>>

ExtCarrier == InjectTraceContext([sc |-> ExtSC(1), bag |-> OneBag], <<<<"k">>>>)

\* the text without its last character
Truncated(s) == SubSeq(s, 1, Len(s) - 1)

\* the text of an object with one more member, written as it is after the others
WithMember(s, key, lit) == Truncated(s) \o <<",">> \o JsonString(<<key>>) \o <<":">> \o lit \o <<"}">>

\* texts something other than InjectTraceContextJSON may hand in: no text, no JSON,
\* a JSON text cut short, JSON values that are not objects, objects with a member
\* that is not a string (beside the propagation fields, or in place of one)
OtherTexts ==
    { << >>, Garbage, Truncated(Marshal(ExtCarrier)), <<"[", "]">>, <<"n", "u", "l", "l">>, <<"1", "2">>,
      JsonString(ExtTraceparent),
      WithMember(Marshal(ExtCarrier), "n", <<"1">>),
      WithMember(Marshal(ExtCarrier), "n", <<"n", "u", "l", "l">>),
      WithMember(Marshal(ExtCarrier), "n", <<"[", "]">>),
      WithMember(Marshal(NewCarrier), "traceparent", <<"1">>),
      <<"{">> \o JsonString(<<"n">>) \o <<":">> \o <<"7">> \o <<"}">> }

\* the values ConvertToMap is handed: a map[string]any with strings, numbers, nil
\* and byte slices, a string, and values of other types (nil among them)
ConvertInputs ==
    {AnyMap(h) : h \in {NoHeaders, ExtCarrier.h,
                        Put(ExtCarrier.h, "n", AnyVal("number", <<"1">>)),
                        Put(ExtCarrier.h, "n", AnyVal("null", << >>)),
                        Put(NoHeaders, TraceparentHeader, RawVal(ExtTraceparent))}}
    \cup {AnyString(s) : s \in OtherTexts \cup {Marshal(NewCarrier), Marshal(ExtCarrier)}}
    \cup {AnyOther}

\* ConvertToMap of a value, and ExtractTraceContext of the map it returns
FnConvert ==
    /\ fn.pc = "off"
    /\ \E raw \in ConvertInputs :
         fn' = [fn EXCEPT !.pc = "converted", !.kind = "map", !.raw = raw,
                          !.conv = ConvertToMap(raw),
                          !.out = ExtractTraceContext(Background, ConvertToMap(raw))]
    /\ UNCHANGED <<globals, unit, pc, tq, tq2, mainpc, call, nextTrace, nextSpan, used, variant>>

InitFn ==
    /\ unit = [t \in Tasks |-> IdleUnit]
    /\ pc = [t \in Tasks |-> "wait"]
    /\ tq = << >> /\ tq2 = << >>
    /\ mainpc = [t \in Tasks |-> "run"]
    /\ call = [st |-> "none", status |-> 0, hdr |-> NewCarrier]
    /\ nextTrace = 1 /\ nextSpan = 1
    /\ used = 0
    /\ variant = "simple"
    /\ fn = NoFn
    /\ globals = [t \in Tasks |-> initTracer(TRUE)]

NextFn == FnInject \/ FnExtract \/ FnDegrade \/ FnTrace \/ FnDeliver \/ FnWithTrace \/ FnWithTraceCtx \/ FnHandle
          \/ FnWithTraceNext
          \/ FnJSON \/ FnConvert
          \/ FnCarrier \/ FnGet \/ FnSet \/ FnKeys \/ FnInjectOver \/ FnInjectAgain

SpecFn == InitFn /\ [][NextFn]_vars

(***************************************************************************)
(* Properties.                                                             *)
(***************************************************************************)
HasField(lg, k) == \E i \in 1..Len(lg) : lg[i].k = k

\* C1: round trip.  For every valid trace context, Inject into a new empty carrier
\* (a string map or a RabbitMQCarrier over an empty header table) followed by Extract
\* into a background context gives a context with the same TraceID, SpanID,
\* TraceFlags and Baggage.
C1_RoundTrip ==
    fn.pc \in {"extracted", "child"} =>
        /\ fn.out.sc.tid = fn.in.sc.tid
        /\ fn.out.sc.sid = fn.in.sc.sid
        /\ fn.out.sc.flags = fn.in.sc.flags
        /\ fn.out.bag = fn.in.bag

\* a RabbitMQCarrier round trip of an unsampled context whose two baggage values
\* need escaping
C1_Witness ==
    /\ fn.pc = "extracted" /\ fn.kind = "rabbit"
    /\ fn.in.sc = ExtSC(0)
    /\ DOMAIN fn.in.bag = BagKeys
    /\ fn.in.bag[<<"k">>] = <<",", "%">> /\ fn.in.bag[<<"m">>] = <<"a">>
    /\ fn.out.bag = fn.in.bag /\ fn.out.sc.tid = ExtTid

\* C2: degrade to root.  Extract on a carrier that is empty or whose propagation
\* fields are missing or malformed returns a context without parent trace and leaves
\* the carrier alone; the span started next is a root span with a new TraceID, and
\* the consumer goes on to process the delivery.
C2_DegradeToRoot ==
    fn.pc \in {"degraded", "root"} =>
        /\ ~IsValid(fn.out.sc) /\ fn.out.sc = NoSC
        /\ ~fn.car.panicked
        /\ fn.pc = "root" =>
              /\ IsValid(fn.span.sc) /\ fn.span.parent = 0 /\ fn.span.sc.tid = nextTrace
              /\ fn.span.rec /\ fn.sid = ToHex(nextSpan, SpanIDHexLen)
              /\ fn.kind = "rabbit" =>
                    /\ Len(fn.du.sp) = 1 /\ Len(fn.du.logs) = 1
                    /\ fn.du.hdr = fn.car /\ fn.du.body = <<"a">>

\* the loop head has run on a delivery whose traceparent has an all-zero trace id
C2_Witness ==
    /\ fn.pc = "root" /\ fn.kind = "rabbit"
    /\ TraceparentHeader \in DOMAIN fn.car.h
    /\ fn.car.h[TraceparentHeader] = StrVal(Traceparent([tid |-> 0, sid |-> ExtSid, flags |-> 1]))
    /\ fn.du.extracted /\ fn.span.parent = 0 /\ Len(fn.du.logs) = 1

\* C10: WithTrace(ctx, spanId) with a context that has no valid span context returns
\* the base logger, with no trace_id and no span_id field, whatever spanId is.
C10_WithTraceNoValid ==
    (fn.pc = "logged" /\ ~IsValid(fn.in.sc)) =>
        /\ fn.log = BaseLogger
        /\ ~HasField(fn.log, "trace_id") /\ ~HasField(fn.log, "span_id")

\* a context with a TraceID but no SpanID, and a non-empty spanId argument
C10_Witness ==
    /\ fn.pc = "logged"
    /\ fn.in.sc.tid = ExtTid /\ fn.in.sc.sid = 0
    /\ fn.sid = ToHex(ExtSid, SpanIDHexLen)
    /\ fn.log = BaseLogger

\* C11: WithTrace(ctx, spanId) with a context that carries a valid span context returns
\* a logger with exactly one trace_id field, the lowercase hex of the context's
\* TraceID, and with a span_id field, equal to spanId, if and only if spanId is not
\* empty; the earlier WithTrace(ctx) adds trace_id and the span_id of the context's span.
C11_WithTraceValid ==
    /\ (fn.pc = "logged" /\ IsValid(fn.in.sc)) =>
          /\ Len(fn.log) = (IF fn.sid = << >> THEN 1 ELSE 2)
          /\ fn.log[1] = Field("trace_id", ToHex(fn.in.sc.tid, TraceIDHexLen))
          /\ HasField(fn.log, "span_id") <=> fn.sid # << >>
          /\ fn.sid # << >> => fn.log[2] = Field("span_id", fn.sid)
    /\ (fn.pc = "loggedctx" /\ IsValid(fn.in.sc)) =>
          fn.log = <<Field("trace_id", ToHex(fn.in.sc.tid, TraceIDHexLen)),
                     Field("span_id", ToHex(fn.in.sc.sid, SpanIDHexLen))>>

\* a valid remote context and an empty spanId: trace_id alone
C11_Witness ==
    /\ fn.pc = "logged" /\ fn.in.sc = [tid |-> 16, sid |-> ExtSid - 1, flags |-> 0, remote |-> TRUE]
    /\ fn.sid = << >>
    /\ fn.log = <<Field("trace_id", ToHex(16, TraceIDHexLen))>>

\* C12: the span-id string produced when a span is started is empty when tracing is
\* disabled or the span returned is a placeholder with an invalid span context, and
\* the lowercase hex of the span's id otherwise: in shared.Trace, in the handlers
\* and in the consumer loops.
C12_SpanIdString ==
    fn.pc \in {"root", "child", "handled", "disabled"} =>
        fn.sid = (IF IsValid(fn.span.sc) THEN ToHex(fn.span.sc.sid, SpanIDHexLen) ELSE << >>)

\* C13: span identity.  The spans started within one unit of work have pairwise
\* distinct SpanIDs and one TraceID; the context the outermost Start returned carries
\* that span as current, and every span started from that context has the outermost
\* span's SpanID as parent; a span never has the SpanID of the span it was started under.
C13_SpanIdentity ==
    \A t \in Tasks : unit[t].kind # "none" =>
        /\ \A i, j \in 1..Len(unit[t].sp) :
              /\ unit[t].sp[i].sc.tid = unit[t].sp[j].sc.tid
              /\ i # j => unit[t].sp[i].sc.sid # unit[t].sp[j].sc.sid
        /\ unit[t].ctx.sc = unit[t].sp[1].sc
        /\ unit[t].sp[1].parent = unit[t].ctx0.sc.sid
        /\ unit[t].sp[1].sc.sid # unit[t].ctx0.sc.sid
        /\ IsValid(unit[t].ctx0.sc) => unit[t].sp[1].sc.tid = unit[t].ctx0.sc.tid
        /\ \A k \in 2..Len(unit[t].sp) : unit[t].sp[k].parent = unit[t].sp[1].sc.sid

\* consumer-1 has run processMessage on a delivery that continues a remote trace
C13_Witness ==
    /\ unit["c1"].kind = "msg" /\ Len(unit["c1"].sp) = 2
    /\ unit["c1"].ctx0.sc.tid = ExtTid /\ unit["c1"].sp[1].parent = ExtSid
    /\ unit["c1"].sp[2].parent = unit["c1"].sp[1].sc.sid
    /\ unit["c1"].sp[2].sc.sid # unit["c1"].sp[1].sc.sid

C15_SetTotal ==
    /\ fn.pc = "set" =>
          /\ ~fn.car.panicked
          /\ fn.key \in DOMAIN fn.car.h /\ fn.car.h[fn.key] = StrVal(fn.val)
    /\ (fn.pc = "got" /\ fn.sets > 0 /\ fn.gkey = fn.key) => fn.got = fn.val

\* C16: after any sequence of Set calls Keys() returns the keys of the header table,
\* each once, those with a value that is not a string included, and leaves the table
\* as it was.
C16_KeysExact ==
    fn.pc = "keys" =>
        /\ Len(fn.keys) = Cardinality(DOMAIN fn.car.h)
        /\ {fn.keys[i] : i \in 1..Len(fn.keys)} = DOMAIN fn.car.h
        /\ \A i, j \in 1..Len(fn.keys) : fn.keys[i] = fn.keys[j] => i = j
        /\ (fn.sets = 0 => fn.car = fn.car0)
        /\ (fn.sets > 0 => fn.key \in {fn.keys[i] : i \in 1..Len(fn.keys)})

\* two Set calls on a table that held a header with a value that is not a string
C16_Witness ==
    /\ fn.pc = "keys" /\ fn.sets = 2 /\ Len(fn.keys) = 3
    /\ fn.car.h["x-other"] = RawVal(<<"a">>)
    /\ DOMAIN fn.car0.h = {"x-other"}

BusinessError(t) == unit[t].kind # "none" /\ (unit[t].err \/ unit[t].resp >= 400)

\* C18: when the operation of a unit of work fails with a business error, the error
\* is recorded on a span of the unit that has not ended and that span's status is set
\* to Error (where the trace is sampled, so that the span records), and the failure
\* is surfaced: an error status for a request, a Nack of the delivery for a message.
C18_ErrorRecorded ==
    \A t \in Tasks : BusinessError(t) =>
        /\ unit[t].sp[1].rec => \E i \in 1..Len(unit[t].sp) : unit[t].sp[i].errs >= 1 /\ unit[t].sp[i].status = "Error"
        /\ t \in Apps => unit[t].resp >= 400
        /\ (t \in Consumers /\ pc[t] = "wait" /\ mainpc[t] = "run") => unit[t].nacks = 1

\* C19: a failure to establish a required transport or connection at startup ends
\* the process with a non-zero exit status, and the process handles no message and
\* no request.
C19_StartupFatal ==
    \A t \in Tasks : mainpc[t] \in {"exit0", "exit1"} =>
        mainpc[t] = "exit1" /\ unit[t].kind = "none"

\* the delivery d has been handed to consumer t, whose earlier delivery, if it had
\* one, has had its span ended and has been acked or nacked
NextDelivery(t, d) ==
    /\ unit[t].kind = "msg" => unit[t].sp[1].ended = 1 /\ unit[t].acks + unit[t].nacks = 1
    /\ unit'[t].kind = "msg" /\ unit'[t].hdr = d.hdr /\ unit'[t].body = d.body
    /\ unit'[t].sp[1].ended = 0 /\ unit'[t].acks + unit'[t].nacks = 0

\* C20: a consumer processes its deliveries one at a time, in the order of its queue:
\* whenever it takes a delivery it takes the one at the head, and the delivery it
\* took before has had its span ended and has been acked or nacked.
C20_OneAtATime ==
    [][/\ (tq # << >> /\ tq' = Tail(tq)) => NextDelivery("c1", Head(tq))
       /\ (tq2 # << >> /\ tq2' = Tail(tq2)) => NextDelivery("c2", Head(tq2))]_vars

\* consumer-2 has taken the second message consumer-1 forwarded while the first is
\* done, and consumer-1 is at its range statement again
C20_Witness ==
    /\ unit["c2"].kind = "msg" /\ unit["c2"].body = <<"b">> /\ pc["c2"] = "end"
    /\ unit["c1"].body = <<"b">> /\ pc["c1"] = "wait" /\ unit["c1"].acks = 1
    /\ tq = << >> /\ tq2 = << >>

OuterStart == [e |-> "start", s |-> 1]

OuterEnd == [e |-> "end", s |-> 1]

Positions(u, e) == {i \in 1..Len(u.ev) : u.ev[i] = e}

\* the unit of work of task t is over: the handler has returned, the loop body is done
Completed(t) == IF t \in Apps THEN unit[t].resp # 0 ELSE unit[t].kind = "msg" /\ pc[t] = "wait"

\* C3: a consumer acks or nacks a delivery only after the outermost span of that
\* delivery has ended, on the success path and on the processing-error path.
C3_AckAfterEnd ==
    \A t \in Consumers : \A i \in 1..Len(unit[t].ev) :
        unit[t].ev[i].e \in {"ack", "nack"} => \E j \in 1..(i - 1) : unit[t].ev[j] = OuterEnd

\* C4: End is called exactly once on the outermost span of every unit of work, on
\* every exit path of the handlers and of the consumer loops: never twice, and once
\* when the unit of work is over.
C4_EndExactlyOnce ==
    \A t \in Tasks : unit[t].kind # "none" =>
        /\ Len(unit[t].sp) >= 1
        /\ unit[t].sp[1].ended <= 1
        /\ Cardinality(Positions(unit[t], OuterEnd)) = unit[t].sp[1].ended
        /\ Completed(t) => unit[t].sp[1].ended = 1

\* /call-app2 has returned early with the error status of app-2, its span ended once
C4_Witness ==
    /\ unit["app1"].route = "GET /call-app2" /\ unit["app1"].resp = 500
    /\ unit["app1"].sp[1].ended = 1 /\ unit["app1"].sp[1].status = "Error"

\* C5: sync hop.  When app-1 handles /call-app2 for a request without propagation
\* headers, the span S2 of app-2's POST /process has the TraceID T1 of app-1's span S1
\* and S1 as parent, and app-2's log entries carry trace_id = T1 and span_id = S2.
C5_SyncHop ==
    (pc["app1"] = "calling" /\ call.st = "done" /\ unit["app1"].hdr = NewCarrier
        /\ unit["app2"].caller = "app1") =>
        /\ unit["app2"].sp[1].sc.tid = unit["app1"].sp[1].sc.tid
        /\ unit["app2"].sp[1].parent = unit["app1"].sp[1].sc.sid
        /\ \A i \in 1..Len(unit["app2"].logs) : \A j \in 1..Len(unit["app2"].logs[i].lg) :
              unit["app2"].logs[i].lg[j].k = "trace_id" =>
                  unit["app2"].logs[i].lg[j].v = ToHex(unit["app1"].sp[1].sc.tid, TraceIDHexLen)

\* the headers hold the traceparent written for span context sc
CarriesTrace(hdr, sc) ==
    /\ TraceparentHeader \in DOMAIN hdr.h
    /\ hdr.h[TraceparentHeader] = StrVal(Traceparent(sc))

\* the outermost span of the unit continues the trace of sc, as a child of its span
ChildOf(u, sc) ==
    /\ u.sp[1].sc.tid = sc.tid /\ u.sp[1].parent = sc.sid
    /\ u.sp[1].sc.sid # sc.sid /\ u.ctx.sc.tid = sc.tid

\* C6: async hop.  The span a consumer starts for a delivery of a message that was
\* published with injected headers for trace T2 and span S3 has TraceID T2 and
\* parent S3, for the first delivery and for every redelivery after a Nack.
C6_AsyncHop ==
    \A t \in Consumers : unit[t].kind = "msg" =>
        /\ \A p \in {"app2", "c1"} : \A i \in 1..Len(unit[p].pub) :
              unit[p].pub[i].hdr = unit[t].hdr => ChildOf(unit[t], unit[p].ctx.sc)
        /\ \A f \in {0, 1} : CarriesTrace(unit[t].hdr, ExtSC(f)) => ChildOf(unit[t], ExtSC(f))

\* consumer-1 is on a redelivery of the message app-2 published
C6_Witness ==
    /\ unit["c1"].kind = "msg" /\ unit["c1"].redelivered
    /\ Len(unit["app2"].pub) = 1 /\ unit["app2"].pub[1].hdr = unit["c1"].hdr
    /\ unit["c1"].sp[1].parent = unit["app2"].sp[1].sc.sid

\* C7: Extract runs at every inbound boundary before the outermost span is started,
\* for every HTTP request and every consumed message, also when there are no headers.
C7_ExtractAlways ==
    \A t \in Tasks : unit[t].kind # "none" =>
        /\ unit[t].extracted
        /\ \E i \in 1..Len(unit[t].ev) :
              /\ unit[t].ev[i].e = "extract"
              /\ \A j \in Positions(unit[t], OuterStart) : i < j

\* C8: the outermost Start of a unit of work runs exactly once, after the extraction
\* at the boundary and before every log entry, child span, span mutation, Inject,
\* publish and completion of the unit; every other span of the unit is started from
\* a context derived from it (same TraceID, parent among the unit's earlier spans).
C8_StartOnceFirst ==
    \A t \in Tasks : unit[t].kind # "none" =>
        LET u == unit[t]
            P == Positions(u, OuterStart)
        IN  /\ Cardinality(P) = 1
            /\ \A j \in P :
                  /\ \A i \in 1..(j - 1) : u.ev[i].e \in {"recv", "extract"}
                  /\ \A i \in (j + 1)..Len(u.ev) : u.ev[i].e \notin {"recv", "extract"}
            /\ \A k \in 2..Len(u.sp) :
                  /\ u.sp[k].sc.tid = u.sp[1].sc.tid
                  /\ \E j \in 1..(k - 1) : u.sp[k].parent = u.sp[j].sc.sid

\* /chain has returned with its five spans
C8_Witness ==
    /\ unit["app1"].route = "GET /chain" /\ unit["app1"].resp = 200
    /\ Len(unit["app1"].sp) = 5
    /\ \A k \in 2..5 : unit["app1"].sp[k].parent = unit["app1"].sp[1].sc.sid

\* C9: every delivery a consumer takes receives exactly one of Ack and Nack, and
\* every handler invocation returns a response, whatever the tracing outcome.
C9_Completion ==
    /\ \A t \in Consumers :
          (unit[t].kind = "msg" /\ (pc[t] = "wait" \/ mainpc[t] = "exited")) =>
              unit[t].acks + unit[t].nacks = 1
    /\ \A a \in Apps : (unit[a].kind = "http" /\ pc[a] = "wait") => unit[a].resp # 0

\* the traceparent header of the unit's message holds a value that is not a string
NonStringTraceparent(u) ==
    /\ u.kind = "msg" /\ TraceparentHeader \in DOMAIN u.hdr.h
    /\ ~u.hdr.h[TraceparentHeader].isStr

\* the calls of d.Ack and d.Nack made for the unit's delivery, whatever they returned
Settlements(u) == {i \in 1..Len(u.ev) : u.ev[i].e \in {"ack", "nack", "ackfail", "nackfail"}}

\* C21: a delivery whose traceparent header holds a value that is not a string does
\* not fail the consumer: Get gives the empty string, nothing is extracted, the
\* outermost span is a root span with a new TraceID, and the loop body goes on to its
\* end, where it calls Ack or Nack once.
C21_NonStringHeader ==
    \A t \in Consumers : NonStringTraceparent(unit[t]) =>
        /\ Get(unit[t].hdr, TraceparentHeader) = << >>
        /\ ~unit[t].hdr.panicked
        /\ unit[t].extracted /\ ~IsValid(unit[t].ctx0.sc)
        /\ Len(unit[t].sp) >= 1
        /\ IsValid(unit[t].sp[1].sc) /\ unit[t].sp[1].parent = 0
        /\ unit[t].sp[1].sc.tid # ParseTraceparent(unit[t].hdr.h[TraceparentHeader].s).tid
        /\ pc[t] \in {"wait", "nack", "fwd", "end"}
        /\ Completed(t) => Cardinality(Settlements(unit[t])) = 1
        /\ (Completed(t) /\ mainpc[t] = "run") => unit[t].acks + unit[t].nacks = 1

\* consumer-1 has forwarded and acked a message whose traceparent is not a string
C21_Witness ==
    /\ NonStringTraceparent(unit["c1"]) /\ pc["c1"] = "wait"
    /\ unit["c1"].acks = 1 /\ Len(unit["c1"].pub) = 1
    /\ unit["c1"].sp[1].parent = 0 /\ unit["c1"].sp[1].ended = 1

\* the baggage the propagator reads from a header table
BaggageIn(hdr) == Extract("rabbit", Background, hdr).bag

\* C22: baggage goes through consumer-1 unchanged.  The baggage extracted from a
\* message consumer-1 consumes is the baggage its headers hold, starting spans does
\* not change it, and the message consumer-1 forwards to task_queue_2 carries exactly
\* these entries, which consumer-2 extracts in turn.
C22_BaggageVerbatim ==
    /\ \A t \in Tasks : unit[t].kind # "none" => unit[t].ctx.bag = unit[t].ctx0.bag
    /\ \A t \in Consumers : unit[t].kind = "msg" => unit[t].ctx0.bag = BaggageIn(unit[t].hdr)
    /\ \A i \in 1..Len(unit["c1"].pub) :
          /\ BaggageIn(unit["c1"].pub[i].hdr) = unit["c1"].ctx0.bag
          /\ (unit["c2"].kind = "msg" /\ unit["c2"].hdr = unit["c1"].pub[i].hdr) =>
                 unit["c2"].ctx.bag = BaggageIn(unit["c1"].hdr)

\* consumer-2 works on the message consumer-1 forwarded for a message with baggage
C22_Witness ==
    /\ unit["c1"].kind = "msg" /\ unit["c1"].ctx0.bag = OneBag
    /\ Len(unit["c1"].pub) = 1 /\ BaggageHeader \in DOMAIN unit["c1"].pub[1].hdr.h
    /\ unit["c2"].kind = "msg" /\ unit["c2"].hdr = unit["c1"].pub[1].hdr
    /\ unit["c2"].ctx.bag = OneBag

\* C23: a span that is active when the termination signal arrives is still ended
\* once, and its delivery acked or nacked, before the process exits: main does not
\* close the channel and return while the loop body is between Start and End.
C23_DrainBeforeExit ==
    \A t \in Consumers :
        /\ (mainpc[t] = "exited" /\ unit[t].kind = "msg") =>
               unit[t].sp[1].ended = 1 /\ unit[t].acks + unit[t].nacks = 1
        /\ (mainpc[t] = "closed" /\ Completed(t)) => unit[t].acks + unit[t].nacks = 1

SpanStart(i) == [e |-> "start", s |-> i]

SpanEnd(i) == [e |-> "end", s |-> i]

\* C24: for every span of a unit of work (handler, helper, consumer loop) End comes
\* after Start in the order of events of the task that runs the unit, and no
\* attribute, status or error is set on a span after its End.
C24_Monotonic ==
    \A t \in Tasks : \A i \in 1..Len(unit[t].sp) :
        /\ Cardinality(Positions(unit[t], SpanStart(i))) = 1
        /\ Cardinality(Positions(unit[t], SpanEnd(i))) = unit[t].sp[i].ended
        /\ \A pe \in Positions(unit[t], SpanEnd(i)) :
              /\ \A ps \in Positions(unit[t], SpanStart(i)) : ps < pe
              /\ \A j \in (pe + 1)..Len(unit[t].ev) :
                    ~(unit[t].ev[j].e = "set" /\ unit[t].ev[j].s = i)

\* /random-error has failed: error and status were set on the helper's span and on
\* the handler's span, and both spans have ended
C24_Witness ==
    \E a \in Apps :
        /\ unit[a].route = "GET /random-error" /\ unit[a].resp = 500
        /\ Len(unit[a].sp) = 2
        /\ \A i \in 1..2 : unit[a].sp[i].ended = 1 /\ unit[a].sp[i].status = "Error"
                              /\ unit[a].sp[i].errs = 1

\* C25: every log entry that has a trace_id field has the TraceID of the trace of its
\* unit of work in it, never a span id or the id of another trace; this holds for the
\* error and success entries of app-2's POST /process too.
C25_TraceIdField ==
    \A t \in Tasks : \A i \in 1..Len(unit[t].logs) : \A j \in 1..Len(unit[t].logs[i].lg) :
        unit[t].logs[i].lg[j].k = "trace_id" =>
            unit[t].logs[i].lg[j].v = ToHex(unit[t].sp[1].sc.tid, TraceIDHexLen)

\* the unit's k-th span has been started and not ended before the p-th event
ActiveAt(u, k, p) ==
    /\ \E i \in 1..(p - 1) : u.ev[i] = SpanStart(k)
    /\ \A i \in 1..(p - 1) : u.ev[i] # SpanEnd(k)

\* the span started last among those active before the p-th event, 0 when there is none
Innermost(u, p) ==
    IF \E k \in 1..Len(u.sp) : ActiveAt(u, k, p)
    THEN CHOOSE k \in 1..Len(u.sp) :
            ActiveAt(u, k, p) /\ \A l \in (k + 1)..Len(u.sp) : ~ActiveAt(u, l, p)
    ELSE 0

\* C26: a log entry written while a child span that a helper started is the innermost
\* active span of the unit carries the span id of that child span as span_id, in the
\* helper functions of the HTTP handlers and inside consumer-1's processMessage.
C26_ChildSpanId ==
    \A t \in Tasks : \A p \in 1..Len(unit[t].ev) :
        (/\ unit[t].ev[p].e = "log"
         /\ Innermost(unit[t], p) >= 2
         /\ unit[t].sp[Innermost(unit[t], p)].name # "HTTP POST") =>
            \E j \in 1..Len(unit[t].logs[unit[t].ev[p].s].lg) :
                unit[t].logs[unit[t].ev[p].s].lg[j] =
                    Field("span_id", SpanIDString(unit[t].sp[Innermost(unit[t], p)].sc))

\* consumer-1 went through initTracer and could not create its exporter
ExporterFailed == variant = "process" /\ mainpc["c1"] # "init" /\ ~globals["c1"].exporter

ForwardedSC(hdr) == ParseTraceparent(Get(hdr, TraceparentHeader))

\* C28: the traceparent of the message consumer-1 forwards holds the TraceID
\* extracted from the inbound message (consumer-1's own when there was none) and the
\* SpanID of consumer-1's outermost 'Process Message' span, not the upstream span's
\* and not the inner processMessage span's, so that the span consumer-2 starts for
\* it is a child of consumer-1's outermost span.
C28_ForwardedParent ==
    \A i \in 1..Len(unit["c1"].pub) :
        /\ CarriesTrace(unit["c1"].pub[i].hdr, unit["c1"].sp[1].sc)
        /\ unit["c1"].sp[1].name = "Process Message"
        /\ ForwardedSC(unit["c1"].pub[i].hdr).sid = unit["c1"].sp[1].sc.sid
        /\ IsValid(unit["c1"].ctx0.sc) =>
              /\ ForwardedSC(unit["c1"].pub[i].hdr).tid = unit["c1"].ctx0.sc.tid
              /\ ForwardedSC(unit["c1"].pub[i].hdr).sid # unit["c1"].ctx0.sc.sid
        /\ \A k \in 2..Len(unit["c1"].sp) :
              ForwardedSC(unit["c1"].pub[i].hdr).sid # unit["c1"].sp[k].sc.sid
        /\ (unit["c2"].kind = "msg" /\ unit["c2"].hdr = unit["c1"].pub[i].hdr) =>
              /\ unit["c2"].sp[1].parent = unit["c1"].sp[1].sc.sid
              /\ unit["c2"].sp[1].sc.tid = unit["c1"].sp[1].sc.tid

\* consumer-2 has started its span for the message that the consumer-1 with
\* processMessage forwarded inside an inbound trace
C28_Witness ==
    /\ Len(unit["c1"].sp) = 2 /\ unit["c1"].sp[2].name = "ProcessMessage"
    /\ unit["c1"].ctx0.sc.tid = ExtTid /\ Len(unit["c1"].pub) = 1
    /\ unit["c2"].kind = "msg" /\ unit["c2"].hdr = unit["c1"].pub[1].hdr
    /\ unit["c2"].sp[1].parent = unit["c1"].sp[1].sc.sid
    /\ unit["c2"].sp[1].sc.tid = ExtTid

\* the names of the spans of /chain in the order they are started
ChainSpans == <<"GET /chain", "step1", "step1Subtask", "step2", "step3">>

\* C29: in /chain every helper discards the context its own Start returns, so
\* step1, step1Subtask, step2 and step3 are all started from the context of the
\* 'GET /chain' span: each has that span as parent and its TraceID, and
\* step1Subtask is not a child of step1.
C29_ChainFlat ==
    \A a \in Apps : (unit[a].route = "GET /chain" /\ unit[a].resp # 0) =>
        /\ [k \in 1..Len(unit[a].sp) |-> unit[a].sp[k].name] = ChainSpans
        /\ unit[a].ctx.sc = unit[a].sp[1].sc
        /\ \A k \in 2..Len(unit[a].sp) :
              /\ unit[a].sp[k].parent = unit[a].sp[1].sc.sid
              /\ unit[a].sp[k].sc.tid = unit[a].sp[1].sc.tid
        /\ unit[a].sp[3].parent # unit[a].sp[2].sc.sid
        /\ Cardinality({unit[a].sp[k].sc.sid : k \in 1..Len(unit[a].sp)}) = Len(ChainSpans)

\* /chain has returned for a request that came with a traceparent: step1Subtask and
\* step1 are siblings under 'GET /chain'
C29_Witness ==
    /\ unit["app1"].route = "GET /chain" /\ unit["app1"].resp = 200
    /\ unit["app1"].hdr # NewCarrier
    /\ unit["app1"].sp[3].name = "step1Subtask" /\ unit["app1"].sp[2].name = "step1"
    /\ unit["app1"].sp[3].parent = unit["app1"].sp[2].parent
    /\ unit["app1"].sp[3].ended = 1

\* C30: span lifetimes are properly nested.  A span that is started while another
\* span of the unit is open (a helper's span inside its caller's: the span of
\* processMessage inside 'Process Message', step1Subtask's inside step1's) is ended
\* before that other span is ended.
C30_ProperNesting ==
    \A t \in Tasks : \A i \in 1..Len(unit[t].sp) : \A j \in (i + 1)..Len(unit[t].sp) :
        \A ei \in Positions(unit[t], SpanEnd(i)) : \A sj \in Positions(unit[t], SpanStart(j)) :
            sj < ei => \E ej \in Positions(unit[t], SpanEnd(j)) : ej < ei

\* the spans of a finished /chain: step1Subtask's ended before step1's, step1's
\* before the handler's
C30_Witness ==
    /\ unit["app1"].route = "GET /chain" /\ unit["app1"].resp = 200
    /\ \E s3 \in Positions(unit["app1"], SpanStart(3)), e3 \in Positions(unit["app1"], SpanEnd(3)),
          e2 \in Positions(unit["app1"], SpanEnd(2)), e1 \in Positions(unit["app1"], SpanEnd(1)) :
          s3 < e3 /\ e3 < e2 /\ e2 < e1

\* the events of kind e in the unit's sequence
EventsOf(u, e) == {i \in 1..Len(u.ev) : u.ev[i].e = e}

\* C31: consumer-1 acks the inbound delivery whenever processing returned no error,
\* whatever the forward publish did.  When Publish to task_queue_2 fails the error is
\* only logged: the span is ended, Ack is called once, the delivery is not nacked and
\* the message is not put back on task_queue.
C31_AckDespitePublishFailure ==
    (unit["c1"].kind = "msg" /\ ~unit["c1"].err) =>
        /\ unit["c1"].nacks = 0
        /\ EventsOf(unit["c1"], "nack") \cup EventsOf(unit["c1"], "nackfail") = {}
        /\ \A i \in 1..Len(tq) : ~tq[i].redelivered
        /\ EventsOf(unit["c1"], "publishfail") # {} =>
              /\ unit["c1"].pub = << >>
              /\ \E i \in 1..Len(unit["c1"].logs) : unit["c1"].logs[i].m = "Failed to forward message"
        /\ Completed("c1") =>
              /\ unit["c1"].sp[1].ended = 1
              /\ Cardinality(EventsOf(unit["c1"], "ack") \cup EventsOf(unit["c1"], "ackfail")) = 1
              /\ Cardinality(EventsOf(unit["c1"], "publish") \cup EventsOf(unit["c1"], "publishfail")) = 1
              /\ mainpc["c1"] = "run" => unit["c1"].acks = 1

\* the forward publish failed on an open channel and the delivery has been acked
C31_Witness ==
    /\ unit["c1"].kind = "msg" /\ pc["c1"] = "wait" /\ mainpc["c1"] = "run"
    /\ EventsOf(unit["c1"], "publishfail") # {}
    /\ unit["c1"].acks = 1 /\ unit["c1"].sp[1].ended = 1 /\ tq = << >> /\ tq2 = << >>

\* consumer-1 (the build with processMessage) holds a delivery with an empty body
EmptyDelivery == variant = "process" /\ unit["c1"].kind = "msg" /\ unit["c1"].body = << >>

\* consumer-1 (the build with processMessage) holds a delivery with a body
BodyDelivery == variant = "process" /\ unit["c1"].kind = "msg" /\ unit["c1"].body # << >>

\* what holds of every delivery of a message with an empty body
EmptyNeverForwarded ==
    EmptyDelivery =>
        /\ unit["c1"].err /\ unit["c1"].pub = << >> /\ unit["c1"].acks = 0
        /\ EventsOf(unit["c1"], "ack") \cup EventsOf(unit["c1"], "ackfail")
              \cup EventsOf(unit["c1"], "publish") \cup EventsOf(unit["c1"], "publishfail") = {}
        /\ pc["c1"] \in {"nack", "wait"}
        /\ EventsOf(unit["c1"], "nack") # {} =>
              /\ unit["c1"].nacks = 1
              /\ pc["c1"] = "wait" => (tq # << >> /\ Head(tq).redelivered /\ Head(tq).body = << >>
                                        /\ Head(tq).hdr = unit["c1"].hdr)

C33_ForwardOnce ==
    unit["c1"].kind = "msg" =>
        /\ Cardinality(EventsOf(unit["c1"], "publish") \cup EventsOf(unit["c1"], "publishfail")) <= 1
        /\ Len(unit["c1"].pub) = Cardinality(EventsOf(unit["c1"], "publish"))
        /\ EventsOf(unit["c1"], "publish") \cup EventsOf(unit["c1"], "publishfail") # {} => ~unit["c1"].err
        /\ EventsOf(unit["c1"], "nack") \cup EventsOf(unit["c1"], "nackfail") # {} =>
              /\ unit["c1"].pub = << >>
              /\ EventsOf(unit["c1"], "publish") \cup EventsOf(unit["c1"], "publishfail") = {}
        /\ \A i \in 1..Len(unit["c1"].pub) :
              /\ unit["c1"].pub[i].body = unit["c1"].body
              /\ unit["c1"].pub[i].ctype = unit["c1"].ctype
              /\ ~unit["c1"].pub[i].hdr.nil /\ ~unit["c1"].pub[i].hdr.panicked
              /\ DOMAIN unit["c1"].pub[i].hdr.h \subseteq {TraceparentHeader, BaggageHeader}
              /\ \E ord \in Perms(DOMAIN unit["c1"].ctx.bag) :
                    unit["c1"].pub[i].hdr = Inject("rabbit", unit["c1"].ctx, NewCarrier, ord)

\* a JSON message that came with a header of its own has been forwarded: same body
\* and content type, and only the traceparent in the new header table
C33_Witness ==
    /\ unit["c1"].kind = "msg" /\ unit["c1"].ctype = "application/json"
    /\ "x-other" \in DOMAIN unit["c1"].hdr.h
    /\ Len(unit["c1"].pub) = 1 /\ unit["c1"].pub[1].ctype = "application/json"
    /\ DOMAIN unit["c1"].pub[1].hdr.h = {TraceparentHeader}
    /\ tq2 = <<unit["c1"].pub[1]>>

\* the fields WithTrace may put on a logger for the arguments ctx and spanId
OwnFields(ctx, spanId) == {Field("trace_id", ToHex(ctx.sc.tid, TraceIDHexLen)), Field("span_id", spanId)}

\* C34: WithTrace never changes the process-wide base logger.  After any number of
\* calls the base logger has no trace_id and no span_id field, and a logger derived
\* for one unit of work has only fields of its own call: no field of the logger
\* derived before it for another unit, which itself stays as it was derived.
C34_BaseLoggerUntouched ==
    /\ fn.base = BaseLogger
    /\ ~HasField(fn.base, "trace_id") /\ ~HasField(fn.base, "span_id")
    /\ fn.calls >= 1 =>
          /\ Len(fn.log) <= 2
          /\ \A i \in 1..Len(fn.log) : fn.log[i] \in OwnFields(fn.in, fn.sid)
    /\ fn.calls >= 2 =>
          /\ \A i \in 1..Len(fn.log0) : fn.log0[i] \in OwnFields(fn.in0, fn.sid0)
          /\ \A i \in 1..Len(fn.log) : \A j \in 1..Len(fn.log0) :
                fn.log[i] = fn.log0[j] => fn.log[i] \in OwnFields(fn.in, fn.sid)

\* two calls in a row for two traces: each logger has its own trace_id and span_id
C34_Witness ==
    /\ fn.calls = 2 /\ fn.in0.sc = ExtSC(1) /\ fn.in.sc.tid = 1
    /\ fn.sid0 = ToHex(ExtSid, SpanIDHexLen) /\ fn.sid = ToHex(0, SpanIDHexLen)
    /\ Len(fn.log0) = 2 /\ Len(fn.log) = 2
    /\ fn.log[1] # fn.log0[1] /\ fn.log[2] # fn.log0[2]

\* the extracted context carries the trace, the span, the flags and the baggage of ctx
Reproduces(out, ctx) ==
    /\ out.sc.tid = ctx.sc.tid /\ out.sc.sid = ctx.sc.sid /\ out.sc.flags = ctx.sc.flags
    /\ out.bag = ctx.bag

ObjectOfStrings(text) == Scan(text).valid /\ Scan(text).kind = "object" /\ AllStrings(Scan(text).ms)

\* the context has no parent trace
NoParent(ctx) == ~IsValid(ctx.sc) /\ ctx.bag = EmptyBag

\* C36: ConvertToMap is total.  It returns a map that is not nil and never fails; for
\* a map[string]any the result has exactly the keys of the input, each mapped to the
\* %v rendering of its value; for a string that is not a JSON object of strings, and
\* for an input of any other type (nil included), ExtractTraceContext on the result
\* gives a context without parent trace.
C36_ConvertToMapTotal ==
    fn.pc = "converted" =>
        /\ ~fn.conv.nil /\ ~fn.conv.panicked
        /\ fn.raw.type = "map" =>
             /\ DOMAIN fn.conv.h = DOMAIN fn.raw.m
             /\ \A k \in DOMAIN fn.raw.m : fn.conv.h[k] = StrVal(Sprintv(fn.raw.m[k]))
        /\ (fn.raw.type = "other" \/ (fn.raw.type = "string" /\ ~ObjectOfStrings(fn.raw.s)))
             => NoParent(fn.out)

====
